---- MODULE Spec2Model ----
(***************************************************************************)
(* Model of the ingestion-to-verdict pipeline of celebrity-death-bot:      *)
(* the deaths table (services/db.ts), the batched insert, and the output   *)
(* reconciler (services/llm-output.ts applyLlmOutput and the inline        *)
(* routes/replicate-callback.ts handler).                                  *)
(*                                                                         *)
(* A wiki_path string is a sequence of tokens.  A token is a letter, an    *)
(* underscore, a space, the escape "%20", a bare "%" (malformed escape) or *)
(* the path prefix "/wiki/".  String functions of the source are defined   *)
(* token by token.                                                         *)
(***************************************************************************)
EXTENDS Integers, Sequences, FiniteSets, TLC

VARIABLES deaths, runs, calls, now, hook, job, outbox, rate_limits, kv

\* state outside the table and the reconciler: the webhook request being
\* handled, the dispatching job, the provider requests made, the limiter
\* table, the KV namespace
edgeVars == <<hook, job, outbox, rate_limits, kv>>

vars == <<deaths, runs, calls, now, hook, job, outbox, rate_limits, kv>>

\* ---------------------------------------------------------------- bounds
MaxRuns == 2
MaxTime == 1

Runs == 1..MaxRuns

\* The two invocations that can be reconciling at the same time: a provider
\* webhook delivery, and a /run (or cron) invocation whose synchronous
\* dispatch reconciles inline
Calls == {"webhook", "manual"}

\* SQL NULL for text columns and for the timestamp column
NULL == "NULL"
NoTime == -1

\* ---------------------------------------------------------------- strings
RECURSIVE TrimLeft(_)
TrimLeft(s) ==
  IF s # <<>> /\ Head(s) = " " THEN TrimLeft(Tail(s)) ELSE s

RECURSIVE TrimRight(_)
TrimRight(s) ==
  IF s # <<>> /\ s[Len(s)] = " " THEN TrimRight(SubSeq(s, 1, Len(s) - 1)) ELSE s

\* String.prototype.trim
Trim(s) == TrimRight(TrimLeft(s))

\* s.replace(/\s+/g, '_'): every run of whitespace becomes one underscore
RECURSIVE SpacesToUnderscore(_)
SpacesToUnderscore(s) ==
  IF s = <<>> THEN <<>>
  ELSE IF Head(s) = " " THEN <<"_">> \o SpacesToUnderscore(TrimLeft(s))
  ELSE <<Head(s)>> \o SpacesToUnderscore(Tail(s))

\* s.replace(/_/g, ' ')
RECURSIVE UnderscoresToSpaces(_)
UnderscoresToSpaces(s) ==
  IF s = <<>> THEN <<>>
  ELSE <<IF Head(s) = "_" THEN " " ELSE Head(s)>> \o UnderscoresToSpaces(Tail(s))

\* decodeURIComponent throws URIError on a malformed escape
DecodeThrows(s) == \E i \in 1..Len(s) : s[i] = "%"

RECURSIVE decodeURIComponent(_)
decodeURIComponent(s) ==
  IF s = <<>> THEN <<>>
  ELSE <<CASE Head(s) = "%20" -> " "
           [] Head(s) = "%2Fwiki%2F" -> "/wiki/"
           [] Head(s) = "%25" -> "%"
           [] OTHER -> Head(s)>> \o decodeURIComponent(Tail(s))

RECURSIVE encodeURIComponent(_)
encodeURIComponent(s) ==
  IF s = <<>> THEN <<>>
  ELSE <<CASE Head(s) = " " -> "%20"
           [] Head(s) = "/wiki/" -> "%2Fwiki%2F"
           [] Head(s) = "%" -> "%25"
           [] OTHER -> Head(s)>> \o encodeURIComponent(Tail(s))

\* toStr of a string value: trimmed ('' stands for a missing value too)
toStr(v) == Trim(v)

\* index of the first "/wiki/" token that is followed by at least one token
WikiMatchAt(s) ==
  LET hits == {i \in 1..Len(s) : s[i] = "/wiki/" /\ i < Len(s)}
  IN IF hits = {} THEN 0 ELSE CHOOSE i \in hits : \A j \in hits : i <= j

normalizeWikiPath(value) ==
  LET candidate == Trim(toStr(value))
      m == WikiMatchAt(candidate)
  IN IF candidate = <<>> THEN <<>>
     ELSE IF m > 0 THEN SubSeq(candidate, m + 1, Len(candidate))
     ELSE IF Head(candidate) = "/wiki/" THEN Trim(Tail(candidate))
     ELSE candidate

\* A Map<string,string> is a sequence of <<key, value>> pairs with distinct keys
MapHas(map, key) == \E i \in 1..Len(map) : map[i][1] = key

MapGet(map, key) ==
  IF MapHas(map, key)
  THEN map[CHOOSE i \in 1..Len(map) : map[i][1] = key][2]
  ELSE <<>>

addWikiPathMapping(map, key, value) ==
  LET trimmed == Trim(key)
  IN IF trimmed = <<>> \/ MapHas(map, trimmed) THEN map
     ELSE Append(map, <<trimmed, value>>)

\* the body of the for loop of buildWikiPathMap for one path
AddPathVariants(map, raw) ==
  LET base == normalizeWikiPath(raw)
      m1 == addWikiPathMapping(map, base, base)
      m2 == addWikiPathMapping(m1, SpacesToUnderscore(base), base)
      m3 == addWikiPathMapping(m2, UnderscoresToSpaces(base), base)
      decoded == decodeURIComponent(base)
      m4 == addWikiPathMapping(m3, decoded, base)
      m5 == addWikiPathMapping(m4, SpacesToUnderscore(decoded), base)
      m6 == addWikiPathMapping(m5, UnderscoresToSpaces(decoded), base)
      m7 == addWikiPathMapping(m6, encodeURIComponent(SpacesToUnderscore(decoded)), base)
  IN IF base = <<>> THEN map
     ELSE IF DecodeThrows(base) THEN m3
     ELSE m7

RECURSIVE BuildMapFrom(_, _)
BuildMapFrom(map, paths) ==
  IF paths = <<>> THEN map
  ELSE CHOOSE out \in {BuildMapFrom(next, Tail(paths)) :
                         next \in {AddPathVariants(map, Head(paths))}} : TRUE

buildWikiPathMap(paths) == BuildMapFrom(<<>>, paths)

\* resolveWikiPath(value, map); map = <<>> stands for null or an empty map
resolveWikiPath(value, map) ==
  LET normalized == normalizeWikiPath(value)
      spaced == UnderscoresToSpaces(normalized)
      underscored == SpacesToUnderscore(normalized)
      decoded == decodeURIComponent(normalized)
      decodedUnderscore == SpacesToUnderscore(decoded)
      encoded == encodeURIComponent(decodedUnderscore)
  IN IF normalized = <<>> THEN <<>>
     ELSE IF map = <<>> THEN normalized
     ELSE IF MapGet(map, normalized) # <<>> THEN MapGet(map, normalized)
     ELSE IF MapGet(map, spaced) # <<>> THEN MapGet(map, spaced)
     ELSE IF MapGet(map, underscored) # <<>> THEN MapGet(map, underscored)
     ELSE IF DecodeThrows(normalized) THEN normalized
     ELSE IF MapGet(map, decoded) # <<>> THEN MapGet(map, decoded)
     ELSE IF MapGet(map, decodedUnderscore) # <<>> THEN MapGet(map, decodedUnderscore)
     ELSE IF MapGet(map, encoded) # <<>> THEN MapGet(map, encoded)
     ELSE normalized

\* readWikiPath(item, map): the item's wiki_path key resolved against the map
readWikiPath(item, map) == resolveWikiPath(item.wiki_path, map)

\* candidatePaths.map(trim).filter(Boolean)
TrimAll(paths) ==
  SelectSeq([i \in 1..Len(paths) |-> Trim(paths[i])], LAMBDA t : t # <<>>)

SeqRange(s) == {s[i] : i \in 1..Len(s)}

\* ---------------------------------------------------------------- deaths table
\* deaths is the table in rowid order.  `first` is a history column (not in
\* the schema): the verdict of the write that took the row out of 'pending'.
NewRow(t) ==
  [name |-> t.name, wiki_path |-> t.wiki_path, description |-> t.description,
   cause |-> t.cause, llm_result |-> "pending", llm_date_time |-> NoTime,
   llm_rejection_reason |-> NULL, first |-> "none"]

HasPath(db, p) == \E i \in 1..Len(db) : db[i].wiki_path = p

\* llm_result of the row with wiki_path p, "none" when there is no such row
ResultOf(db, p) ==
  IF HasPath(db, p)
  THEN db[CHOOSE i \in 1..Len(db) : db[i].wiki_path = p].llm_result
  ELSE "none"

StampFirst(row, verdict) ==
  IF row.llm_result = "pending" THEN verdict ELSE row.first

\* One row of INSERT ... VALUES without a conflict clause: a duplicate
\* wiki_path violates uniq_deaths_wiki_path and fails the statement.
InsertRowAbort(db, t) ==
  IF HasPath(db, t.wiki_path)
  THEN [db |-> db, inserted |-> FALSE, error |-> TRUE]
  ELSE [db |-> Append(db, NewRow(t)), inserted |-> TRUE, error |-> FALSE]

\* One row inserted with no uniqueness check at all
InsertRowAlways(db, t) ==
  [db |-> Append(db, NewRow(t)), inserted |-> TRUE, error |-> FALSE]

\* One row of INSERT OR IGNORE: a row whose wiki_path is already present is
\* skipped without an error; RETURNING yields only rows actually inserted.
InsertRowOrIgnore(db, t) ==
  IF HasPath(db, t.wiki_path)
  THEN [db |-> db, inserted |-> FALSE, error |-> FALSE]
  ELSE [db |-> Append(db, NewRow(t)), inserted |-> TRUE, error |-> FALSE]

\* RETURNING that yields every bound row, inserted or ignored
RECURSIVE InsertStatementReturnAll(_, _, _)
InsertStatementReturnAll(db, chunk, acc) ==
  IF chunk = <<>> THEN [db |-> db, results |-> acc, error |-> FALSE]
  ELSE InsertStatementReturnAll(InsertRowOrIgnore(db, Head(chunk)).db, Tail(chunk),
                                Append(acc, Head(chunk)))

\* One multi-row statement; acc collects the RETURNING rows
RECURSIVE InsertStatement(_, _, _)
InsertStatement(db, chunk, acc) ==
  IF chunk = <<>> THEN [db |-> db, results |-> acc, error |-> FALSE]
  ELSE LET r == InsertRowOrIgnore(db, Head(chunk))
       IN IF r.error THEN [db |-> db, results |-> <<>>, error |-> TRUE]
          ELSE InsertStatement(r.db, Tail(chunk),
                               IF r.inserted THEN Append(acc, Head(chunk)) ELSE acc)

\* rows.map(...) of insertBatchReturningNew: wiki_path is trimmed before binding
Tuples(rows) ==
  [i \in 1..Len(rows) |->
     [name |-> rows[i].name, wiki_path |-> Trim(rows[i].wiki_path),
      description |-> rows[i].description, cause |-> rows[i].cause]]

CHUNK == 16

\* env.DB.batch(statements): the statements run in order inside one
\* transaction; newOnes concatenates their RETURNING rows
RECURSIVE RunBatch(_, _, _)
RunBatch(db, tuples, newOnes) ==
  IF tuples = <<>> THEN [db |-> db, newOnes |-> newOnes, error |-> FALSE]
  ELSE LET n == IF Len(tuples) < CHUNK THEN Len(tuples) ELSE CHUNK
           st == InsertStatement(db, SubSeq(tuples, 1, n), <<>>)
       IN IF st.error THEN [db |-> db, newOnes |-> <<>>, error |-> TRUE]
          ELSE RunBatch(st.db, SubSeq(tuples, n + 1, Len(tuples)), newOnes \o st.results)

insertBatchReturningNew(db, rows) ==
  IF rows = <<>> THEN [db |-> db, newOnes |-> <<>>, error |-> FALSE]
  ELSE LET res == RunBatch(db, Tuples(rows), <<>>)
       IN IF res.error THEN [db |-> db, newOnes |-> <<>>, error |-> TRUE] ELSE res

\* UPDATE deaths SET cause, description = COALESCE(desc, description),
\* llm_date_time = CURRENT_TIMESTAMP, llm_result = 'yes' WHERE wiki_path = p
updateDeathLLM(db, wiki_path, cause, description, t) ==
  LET desc == IF description = "" THEN NULL ELSE description
  IN [i \in 1..Len(db) |->
        IF db[i].wiki_path = wiki_path
        THEN [db[i] EXCEPT !.cause = cause,
                           !.description = IF desc = NULL THEN @ ELSE desc,
                           !.llm_date_time = t,
                           !.llm_result = "yes",
                           !.first = StampFirst(db[i], "yes")]
        ELSE db[i]]

\* UPDATE ... SET llm_result = 'no' WHERE wiki_path = p, without the state test
SetNoUnguarded(db, paths, t) ==
  [i \in 1..Len(db) |->
     IF db[i].wiki_path \in SeqRange(TrimAll(paths))
     THEN [db[i] EXCEPT !.llm_result = "no", !.llm_date_time = t,
                        !.first = StampFirst(db[i], "no")]
     ELSE db[i]]

\* UPDATE deaths SET llm_result = 'no', llm_date_time = CURRENT_TIMESTAMP
\* WHERE wiki_path = p AND llm_result = 'pending', for every distinct path
setLLMNoFor(db, paths, t) ==
  [i \in 1..Len(db) |->
     IF db[i].wiki_path \in SeqRange(TrimAll(paths)) /\ db[i].llm_result = "pending"
     THEN [db[i] EXCEPT !.llm_result = "no", !.llm_date_time = t,
                        !.first = StampFirst(db[i], "no")]
     ELSE db[i]]

\* reason of the first rejection item naming path p
ReasonFor(items, p) ==
  items[CHOOSE i \in 1..Len(items) :
          items[i].wiki_path = p /\ \A j \in 1..(i - 1) : items[j].wiki_path # p].reason

\* markDeathsAsNo(env, rejections): the 'no' write of setLLMNoFor plus the
\* rejection reason, for rows that are still pending
markDeathsAsNo(db, items, t) ==
  LET paths == [i \in 1..Len(items) |-> items[i].wiki_path]
      after == setLLMNoFor(db, paths, t)
  IN [i \in 1..Len(db) |->
        IF after[i].llm_result # db[i].llm_result
        THEN [after[i] EXCEPT !.llm_rejection_reason = ReasonFor(items, db[i].wiki_path)]
        ELSE after[i]]

\* markDeathsAsError(env, paths): pending rows of the batch become 'error'
markDeathsAsError(db, paths, t) ==
  [i \in 1..Len(db) |->
     IF db[i].wiki_path \in SeqRange(TrimAll(paths)) /\ db[i].llm_result = "pending"
     THEN [db[i] EXCEPT !.llm_result = "error", !.llm_date_time = t,
                        !.first = StampFirst(db[i], "error")]
     ELSE db[i]]

\* ---------------------------------------------------------------- inputs
pA == <<"A", "_", "B">>
pB == <<"C">>
pX == <<"X">>

\* entries the parser can hand to the batch insert (DeathEntry)
EntryPool ==
  { [name |-> "Ann", wiki_path |-> pA, description |-> "d0", cause |-> NULL],
    [name |-> "Ann2", wiki_path |-> <<" ">> \o pA, description |-> "d0", cause |-> NULL],
    [name |-> "Bob", wiki_path |-> pB, description |-> "d0", cause |-> "c0"] }

MaxBatch == 2

BatchPool == UNION {[1..n -> EntryPool] : n \in 0..MaxBatch}

\* items of a verdict's selected list
iA == [name |-> "Ann", wiki_path |-> pA, cause |-> "c1", description |-> ""]
iAsp == [name |-> "Ann", wiki_path |-> <<"A", " ", "B">>, cause |-> "c1", description |-> "d1"]
iB == [name |-> "Bob", wiki_path |-> pB, cause |-> "", description |-> "d1"]
iBnoname == [name |-> "", wiki_path |-> pB, cause |-> "", description |-> ""]
iNoPath == [name |-> "Zed", wiki_path |-> <<>>, cause |-> "", description |-> ""]
iX == [name |-> "Xia", wiki_path |-> pX, cause |-> "", description |-> ""]

\* items of a verdict's rejected list: a bare string or an object with a reason
rA == [wiki_path |-> pA, reason |-> NULL]
rAurl == [wiki_path |-> <<"/wiki/">> \o pA, reason |-> "r1"]
rB == [wiki_path |-> pB, reason |-> "r2"]

\* Provider outputs.  kind: "empty" (no text), "garbage" (extractAndParseJSON
\* returns null), "scalar" (JSON that is neither array nor object), "array"
\* (flat list), "object" ({selected, rejected})
Verdict(kind, sel, rej) == [kind |-> kind, selected |-> sel, rejected |-> rej]

VerdictPool ==
  { Verdict("empty", <<>>, <<>>),
    Verdict("garbage", <<>>, <<>>),
    Verdict("scalar", <<>>, <<>>),
    Verdict("array", <<iB>>, <<>>),
    Verdict("object", <<iA>>, <<rB>>),
    Verdict("object", <<iB>>, <<rA>>),
    Verdict("object", <<iAsp, iA>>, <<>>),
    Verdict("object", <<iBnoname, iNoPath>>, <<rAurl>>),
    Verdict("object", <<iX>>, <<>>),
    Verdict("object", <<>>, <<rA, rB>>) }

\* outputs delivered to the inline handler of routes/replicate-callback.ts
CallbackPool ==
  { Verdict("empty", <<>>, <<>>),
    Verdict("object", <<iA>>, <<rB>>),
    Verdict("object", <<iAsp, iA>>, <<>>),
    Verdict("object", <<iX>>, <<rAurl>>) }

\* the reconciler a caller runs and the outputs it can be handed
Deliveries(c) ==
  {<<"llm-output", v>> : v \in VerdictPool}
    \cup (IF c = "webhook" THEN {<<"replicate-callback", v>> : v \in CallbackPool} ELSE {})

\* the scan of one cron run: the entries parsed from the source page
ScanBatch ==
  << [name |-> "Ann", wiki_path |-> pA, description |-> "d0", cause |-> NULL],
     [name |-> "Bob", wiki_path |-> pB, description |-> "d0", cause |-> "c0"] >>

\* wiki_path column of the stored rows, in rowid order
StoredPaths(db) == [i \in 1..Len(db) |-> db[i].wiki_path]

\* sub-lists of a list of paths, order kept
RECURSIVE SubLists(_)
SubLists(s) ==
  IF s = <<>> THEN {<<>>}
  ELSE LET rest == SubLists(Tail(s))
       IN rest \cup {<<Head(s)>> \o r : r \in rest}

\* ---------------------------------------------------------------- state
IdleRun == [pc |-> "idle", batch |-> <<>>, returned |-> <<>>, error |-> FALSE]

IdleCall ==
  [pc |-> "idle", route |-> "llm-output", cands |-> <<>>, forced |-> <<>>,
   kind |-> "empty", selected |-> <<>>, rejected |-> <<>>, idx |-> 0,
   log |-> <<>>, notified |-> 0, pendingAt |-> {}, result |-> [notified |-> 0, rejected |-> 0, errored |-> 0]]

\* no webhook request received yet
IdleHook == [state |-> "none"]

\* no job running
IdleJob == [pc |-> "idle", seq |-> 0]

\* nothing dispatched yet: per record the dispatches of the running job, the
\* batches awaiting their callback, the records of a failed dispatch and of
\* a callback rejected as stale, the HTTP requests of the last dispatch
\* the KV namespace before the first write: no month bucket, no lock
\* marker; `ever` is history, the ids written to the bucket so far;
\* `owner` is history, the run whose put wrote the marker that is present
IdleKv == [bucket |-> <<>>, lock |-> FALSE, ever |-> {}, owner |-> 0]

IdleOutbox == [count |-> <<>>, flight |-> {}, failed |-> {}, stale |-> {}, sends |-> 0]

Init ==
  /\ deaths = <<>>
  /\ runs = [r \in Runs |-> IdleRun]
  /\ calls = [c \in Calls |-> IdleCall]
  /\ now = 0
  /\ hook = IdleHook
  /\ job = IdleJob
  /\ outbox = IdleOutbox
  /\ rate_limits = <<>>
  /\ kv = IdleKv

\* CURRENT_TIMESTAMP advances; only a clock value some row was stamped with
\* is worth leaving (an unused value is indistinguishable from the next one)
Tick ==
  /\ now < MaxTime
  /\ \E i \in 1..Len(deaths) : deaths[i].llm_date_time = now
  /\ now' = now + 1
  /\ UNCHANGED <<deaths, runs, calls, edgeVars>>

\* One pipeline run hands its new entries to insertBatchReturningNew
InsertBatch(r, batch) ==
  /\ runs[r].pc = "idle"
  /\ LET res == insertBatchReturningNew(deaths, batch)
     IN /\ deaths' = res.db
        /\ runs' = [runs EXCEPT ![r] = [pc |-> "done", batch |-> batch,
                                        returned |-> res.newOnes, error |-> res.error]]
  /\ UNCHANGED <<calls, now, edgeVars>>

\* ---------------------------------------------------------------- reconciler
\* the candidate lookup table of a call: applyLlmOutput builds it from the
\* candidate paths, the inline Replicate handler has none
CandidateMap(route, candidates) ==
  IF route = "llm-output" /\ candidates # <<>> THEN buildWikiPathMap(candidates) ELSE <<>>

\* the wiki_path a handler reads from a selected item
ItemPath(route, item, candidates) ==
  IF route = "llm-output"
  THEN readWikiPath(item, CandidateMap(route, candidates))
  ELSE toStr(item.wiki_path)

sanitizeReason(value) == IF value = "" THEN NULL ELSE value

\* normalizeRejected: items without a wiki_path are dropped
RECURSIVE normalizeRejected(_, _, _)
normalizeRejected(raw, route, candidates) ==
  IF raw = <<>> THEN <<>>
  ELSE LET wp == ItemPath(route, Head(raw), candidates)
           rest == normalizeRejected(Tail(raw), route, candidates)
       IN IF wp = <<>> THEN rest
          ELSE <<[wiki_path |-> wp, reason |-> sanitizeReason(Head(raw).reason)]>> \o rest

\* selectedItems of a parsed output
SelectedItems(v) == IF v.kind \in {"array", "object"} THEN v.selected ELSE <<>>

\* index of the next selected item at or after i that has a name (items
\* without a name are skipped by `continue`); Len + 1 when there is none
NextNamed(items, i) ==
  LET named == {j \in i..Len(items) : items[j].name # ""}
  IN IF named = {} THEN Len(items) + 1 ELSE CHOOSE j \in named : \A k \in named : j <= k

\* selectedItems.map(readWikiPath).filter(Boolean) as a set
SelectedSet(route, items, candidates) ==
  {ItemPath(route, items[i], candidates) : i \in 1..Len(items)} \ {<<>>}

\* every candidate that was not selected is rejected, listed or not
RejectionsByAbsence(rejectedItems, selectedSet, candidates) ==
  LET listed == SelectSeq(rejectedItems, LAMBDA item : item.wiki_path \notin selectedSet)
      absent == SelectSeq(candidates, LAMBDA q :
                   q \notin selectedSet /\ \A i \in 1..Len(listed) : listed[i].wiki_path # q)
  IN listed \o [i \in 1..Len(absent) |-> [wiki_path |-> absent[i], reason |-> NULL]]

\* rejectedItems.filter((item) => !selectedSet.has(item.wiki_path))
FilteredRejections(rejectedItems, selectedSet, candidates) ==
  SelectSeq(rejectedItems, LAMBDA item : item.wiki_path \notin selectedSet)

\* an unparseable output is dropped without touching the batch
UnparseableIgnore(db, candidates, t) == db

\* if (candidates.length) await markDeathsAsError(env, candidates)
UnparseableWrite(db, candidates, t) ==
  IF candidates # <<>> THEN markDeathsAsError(db, candidates, t) ELSE db

\* history: the candidates that are pending when a call starts
PendingAmong(db, candidates) ==
  {p \in SeqRange(candidates) : ResultOf(db, p) = "pending"}

LogEntry(op, path, db) == [op |-> op, path |-> path, prev |-> ResultOf(db, path)]

\* entry of applyLlmOutput / replicateCallback with the provider's output:
\* parse, and either fail the batch or set up the selected / rejected lists
StartReconcile(c, route, cands, forced, v) ==
  /\ calls[c].pc = "idle"
  /\ LET candidates == TrimAll(cands)
         selected == SelectedItems(v)
         first == NextNamed(selected, 1)
     IN IF v.kind \in {"empty", "garbage"}
        THEN /\ deaths' = UnparseableWrite(deaths, candidates, now)
             /\ calls' = [calls EXCEPT ![c] =
                  [IdleCall EXCEPT !.pc = "done", !.route = route, !.cands = candidates,
                                   !.forced = forced, !.kind = v.kind,
                                   !.pendingAt = PendingAmong(deaths, candidates),
                                   !.log = [i \in 1..Len(candidates) |->
                                              LogEntry("error", candidates[i], deaths)],
                                   !.result = [notified |-> 0, rejected |-> 0,
                                               errored |-> Len(candidates)]]]
        ELSE /\ deaths' = deaths
             /\ calls' = [calls EXCEPT ![c] =
                  [IdleCall EXCEPT !.pc = IF first <= Len(selected) THEN "approve" ELSE "reject",
                                   !.route = route, !.cands = candidates,
                                   !.forced = forced, !.kind = v.kind,
                                   !.pendingAt = PendingAmong(deaths, candidates),
                                   !.selected = selected,
                                   !.rejected = normalizeRejected(v.rejected, route, candidates),
                                   !.idx = first]]
  /\ UNCHANGED <<runs, now, edgeVars>>

\* One iteration of the selected loop for the current named item:
\* notifyTelegram + postToXIfConfigured, notified++, and then
\* if (wiki_path) await updateDeathLLM(...).  The notification touches no
\* state another invocation reads, so it is taken together with the write.
Approve(c) ==
  /\ calls[c].pc = "approve"
  /\ LET call == calls[c]
         item == call.selected[call.idx]
         wp == ItemPath(call.route, item, call.cands)
         next == NextNamed(call.selected, call.idx + 1)
         sent == Append(call.log, LogEntry("notify", wp, deaths))
     IN /\ deaths' = IF wp # <<>>
                     THEN updateDeathLLM(deaths, wp, item.cause, item.description, now)
                     ELSE deaths
        /\ calls' = [calls EXCEPT ![c].pc = IF next <= Len(call.selected) THEN "approve" ELSE "reject",
                                  ![c].idx = next,
                                  ![c].notified = @ + 1,
                                  ![c].log = IF wp # <<>> THEN Append(sent, LogEntry("yes", wp, deaths))
                                             ELSE sent]
  /\ UNCHANGED <<runs, now, edgeVars>>

\* the rejected block and the return value
Reject(c) ==
  /\ calls[c].pc = "reject"
  /\ LET call == calls[c]
         selectedSet == SelectedSet(call.route, call.selected, call.cands)
         filtered == FilteredRejections(call.rejected, selectedSet, call.cands)
     IN /\ deaths' = IF call.rejected # <<>> THEN markDeathsAsNo(deaths, filtered, now) ELSE deaths
        /\ calls' = [calls EXCEPT ![c].pc = "done",
                                  ![c].log = IF call.rejected # <<>>
                                             THEN @ \o [i \in 1..Len(filtered) |->
                                                          LogEntry("no", filtered[i].wiki_path, deaths)]
                                             ELSE @,
                                  ![c].result = [notified |-> call.notified,
                                                 rejected |-> Len(call.rejected),
                                                 errored |-> 0]]
  /\ UNCHANGED <<runs, now, edgeVars>>

\* candidate lists a caller can carry: a synchronous dispatch always has
\* entries (evaluateDeaths returns early without), a webhook may have none
CandidateLists(c, db) ==
  IF c = "manual" THEN SubLists(StoredPaths(db)) \ {<<>>} ELSE SubLists(StoredPaths(db))

Next ==
  \/ Tick
  \/ InsertBatch(1, ScanBatch)
  \/ \E c \in Calls : \E d \in Deliveries(c) :
       \E cands \in CandidateLists(c, deaths) :
         \E forced \in {<<>>, cands} : StartReconcile(c, d[1], cands, forced, d[2])
  \/ \E c \in Calls : Approve(c)
  \/ \E c \in Calls : Reject(c)

Spec == Init /\ [][Next]_vars

\* the batch insert alone, under concurrent runs with arbitrary batches
NextInsert == \E r \in Runs, batch \in BatchPool : InsertBatch(r, batch)

SpecInsert == Init /\ [][NextInsert]_vars

\* ---------------------------------------------------------------- type invariant
TypeOK ==
  /\ now \in 0..MaxTime
  /\ \A i \in 1..Len(deaths) :
       /\ deaths[i].llm_result \in {"pending", "yes", "no", "error"}
       /\ deaths[i].llm_date_time \in {NoTime} \cup (0..MaxTime)
  /\ \A c \in Calls : calls[c].pc \in {"idle", "approve", "reject", "done"}
  /\ \A r \in Runs : runs[r].pc \in {"idle", "done"}

\* ---------------------------------------------------------------- properties
Terminal == {"yes", "no", "error"}
Parseable == {"scalar", "array", "object"}

LogOps(c, ops) == {k \in 1..Len(calls[c].log) : calls[c].log[k].op \in ops}

\* number of Notifier invocations of call c for wiki_path p
NotifyCount(c, p) ==
  Cardinality({k \in LogOps(c, {"notify"}) : calls[c].log[k].path = p})

\* records that call c's approved write matched
ApprovedBy(c) ==
  {calls[c].log[k].path : k \in {j \in LogOps(c, {"yes"}) : calls[c].log[j].prev # "none"}}

\* verdicts call c tried to write to the record with wiki_path p
WritesOn(c, p) ==
  {calls[c].log[k].op : k \in {j \in LogOps(c, Terminal) : calls[c].log[j].path = p}}

\* ids a call's verdict lists under selected or rejected, after resolution
ListedPaths(call) ==
  SelectedSet(call.route, call.selected, call.cands)
    \cup {call.rejected[k].wiki_path : k \in 1..Len(call.rejected)}

\* C1: once a record's verdict is yes, no or error, no reconciler step
\* changes it (neither back to pending nor to another terminal verdict).
C1_ForwardOnly ==
  [][\A i \in 1..Len(deaths) :
       deaths[i].llm_result \in Terminal => deaths'[i].llm_result = deaths[i].llm_result]_vars

\* C2: in a finished reconciliation call the Notifier ran exactly once for
\* each record the call approved, and not at all for any other selected item.
C2_NotifierExactlyOnce ==
  \A c \in Calls :
    calls[c].pc = "done" =>
      /\ \A p \in ApprovedBy(c) : NotifyCount(c, p) = 1
      /\ calls[c].notified = Cardinality(ApprovedBy(c))

\* C3: an empty or unparseable output finishes the call in one step that
\* turns every pending candidate into error, leaves no candidate pending,
\* changes no other row, notifies nobody and returns errored = #candidates.
C3_UnparseableFailSafe ==
  [][\A c \in Calls :
       (calls[c].pc = "idle" /\ calls'[c].pc = "done" /\ calls'[c].kind \in {"empty", "garbage"}) =>
         /\ calls'[c].result = [notified |-> 0, rejected |-> 0, errored |-> Len(calls'[c].cands)]
         /\ calls'[c].notified = 0
         /\ \A k \in 1..Len(calls'[c].log) : calls'[c].log[k].op = "error"
         /\ Len(deaths') = Len(deaths)
         /\ \A i \in 1..Len(deaths) :
              IF deaths[i].wiki_path \in SeqRange(calls'[c].cands)
              THEN /\ deaths'[i].llm_result # "pending"
                   /\ deaths[i].llm_result = "pending" =>
                        (deaths'[i].llm_result = "error" /\ deaths'[i].llm_date_time = now)
                   /\ deaths[i].llm_result # "pending" => deaths'[i] = deaths[i]
              ELSE deaths'[i] = deaths[i]]_vars

C3_Witness ==
  \E c \in Calls :
    /\ calls[c].pc = "done"
    /\ calls[c].kind \in {"empty", "garbage"}
    /\ \E k \in 1..Len(calls[c].log) :
         /\ calls[c].log[k].prev = "pending"
         /\ ResultOf(deaths, calls[c].log[k].path) = "error"

\* C4: the rejected write of a call changes only rows that are pending (to
\* no, stamped with the current time); a row in any other state keeps every
\* column.
C4_RejectOnlyPending ==
  [][\A c \in Calls :
       (calls[c].pc = "reject" /\ calls'[c].pc = "done") =>
         /\ Len(deaths') = Len(deaths)
         /\ \A i \in 1..Len(deaths) :
              /\ deaths[i].llm_result # "pending" => deaths'[i] = deaths[i]
              /\ deaths'[i] # deaths[i] =>
                   /\ deaths'[i].llm_result = "no"
                   /\ deaths'[i].llm_date_time = now
                   /\ \E k \in 1..Len(calls[c].rejected) :
                        calls[c].rejected[k].wiki_path = deaths[i].wiki_path]_vars

C4_Witness ==
  /\ \E c \in Calls : \E k \in LogOps(c, {"no"}) :
       calls[c].pc = "done" /\ calls[c].log[k].prev \in Terminal
  /\ \E c \in Calls : \E k \in LogOps(c, {"no"}) :
       calls[c].pc = "done" /\ calls[c].log[k].prev = "pending"

\* C5: when both calls started while a record was pending and have written
\* conflicting verdicts to it, the record carries the verdict of the write
\* that was applied first.
C5_FirstWriteWins ==
  \A i \in 1..Len(deaths) :
    LET p == deaths[i].wiki_path
    IN (/\ \A c \in Calls :
             calls[c].pc = "done" /\ p \in calls[c].pendingAt /\ WritesOn(c, p) # {}
        /\ WritesOn("webhook", p) \cap WritesOn("manual", p) = {}
        /\ deaths[i].first # "none")
       => deaths[i].llm_result = deaths[i].first

\* C6: no step of a call with a parsed verdict changes a forced record that
\* the verdict lists neither under selected nor under rejected.
C6_ForcedOmittedUntouched ==
  [][\A c \in Calls :
       (calls'[c] # calls[c] /\ calls'[c].kind \in Parseable) =>
         \A i \in 1..Len(deaths) :
           (/\ deaths[i].wiki_path \in SeqRange(calls'[c].forced)
            /\ deaths[i].wiki_path \notin ListedPaths(calls'[c]))
           => deaths'[i] = deaths[i]]_vars

C6_Witness ==
  \E c \in Calls :
    /\ calls[c].pc = "done"
    /\ calls[c].kind \in Parseable
    /\ calls[c].rejected # <<>>
    /\ \E p \in SeqRange(calls[c].forced) :
         p \notin ListedPaths(calls[c]) /\ ResultOf(deaths, p) = "pending"

\* C7: after a call with a parsed verdict has finished, no candidate that is
\* neither selected nor forced is still pending.
C7_RejectionByAbsence ==
  \A c \in Calls :
    (calls[c].pc = "done" /\ calls[c].kind \in Parseable) =>
      \A p \in SeqRange(calls[c].cands) :
        (/\ p \notin SelectedSet(calls[c].route, calls[c].selected, calls[c].cands)
         /\ p \notin SeqRange(calls[c].forced))
        => ResultOf(deaths, p) # "pending"

\* trimmed ids of a batch, and ids of the rows a run got back
BatchPaths(r) == {Trim(runs[r].batch[k].wiki_path) : k \in 1..Len(runs[r].batch)}
ReturnedPaths(r) == {runs[r].returned[k].wiki_path : k \in 1..Len(runs[r].returned)}

\* C8: an insert of a batch that an earlier call already inserted leaves the
\* table as it is and returns no rows.
C8_IdempotentInsert ==
  [][\A r \in Runs :
       (/\ runs[r].pc = "idle" /\ runs'[r].pc = "done"
        /\ \E q \in Runs : runs[q].pc = "done" /\ runs[q].batch = runs'[r].batch)
       => (deaths' = deaths /\ runs'[r].returned = <<>>)]_vars

C8_Witness ==
  \E r, q \in Runs :
    /\ r # q /\ runs[r].pc = "done" /\ runs[q].pc = "done"
    /\ runs[r].batch = runs[q].batch
    /\ runs[r].returned # <<>>
    /\ runs[q].returned = <<>>

\* C9: an insert appends one pending row for each distinct trimmed id of the
\* batch that was not stored, keeps the existing rows, and returns exactly
\* the appended rows.
C9_InsertReturnsInserted ==
  [][\A r \in Runs :
       (runs[r].pc = "idle" /\ runs'[r].pc = "done") =>
         LET batch == runs'[r].batch
             ret == runs'[r].returned
             old == {deaths[i].wiki_path : i \in 1..Len(deaths)}
             fresh == {Trim(batch[k].wiki_path) : k \in 1..Len(batch)} \ old
             added == SubSeq(deaths', Len(deaths) + 1, Len(deaths'))
         IN /\ Len(deaths') >= Len(deaths)
            /\ SubSeq(deaths', 1, Len(deaths)) = deaths
            /\ {added[k].wiki_path : k \in 1..Len(added)} = fresh
            /\ Len(added) = Cardinality(fresh)
            /\ Len(ret) = Len(added)
            /\ \A k \in 1..Len(added) :
                 /\ added[k].llm_result = "pending"
                 /\ added[k].llm_date_time = NoTime
                 /\ ret[k].wiki_path = added[k].wiki_path
                 /\ ret[k].name = added[k].name
                 /\ \E j \in 1..Len(batch) :
                      batch[j].name = ret[k].name /\ Trim(batch[j].wiki_path) = ret[k].wiki_path]_vars

C9_Witness ==
  \E r, q \in Runs :
    /\ r # q /\ runs[r].pc = "done" /\ runs[q].pc = "done"
    /\ Len(runs[r].batch) = 2
    /\ runs[r].batch[1].wiki_path # runs[r].batch[2].wiki_path
    /\ Trim(runs[r].batch[1].wiki_path) = Trim(runs[r].batch[2].wiki_path)
    /\ Len(runs[r].returned) = 1
    /\ Len(runs[q].batch) = 2
    /\ Len(runs[q].returned) = 1
    /\ Len(deaths) = 2

\* C10: when two finished runs both carried an id, the table holds one row
\* for it, neither run failed, and exactly one run got the row back.
C10_ConcurrentInsert ==
  \A r, q \in Runs :
    (r # q /\ runs[r].pc = "done" /\ runs[q].pc = "done") =>
      \A p \in BatchPaths(r) \cap BatchPaths(q) :
        /\ Cardinality({i \in 1..Len(deaths) : deaths[i].wiki_path = p}) = 1
        /\ ~runs[r].error /\ ~runs[q].error
        /\ Cardinality({x \in Runs : p \in ReturnedPaths(x)}) = 1
        /\ ~(p \in ReturnedPaths(r) /\ p \in ReturnedPaths(q))
        /\ (\A x \in Runs \ {r, q} : p \notin ReturnedPaths(x))
             => (p \in ReturnedPaths(r) \/ p \in ReturnedPaths(q))

C10_Witness ==
  \E r, q \in Runs :
    /\ r # q /\ runs[r].pc = "done" /\ runs[q].pc = "done"
    /\ \E p \in BatchPaths(r) \cap BatchPaths(q) :
         p \in ReturnedPaths(r) /\ p \notin ReturnedPaths(q)

\* ---------------------------------------------------------------- webhook verifier
\* A header or body string is a sequence of one-character tokens; a missing
\* header and an empty one are both <<>> (the code tests them with `!`).
DEFAULT_MAX_AGE_SECONDS == 5 * 60

Digits == <<"0", "1", "2", "3", "4", "5", "6", "7", "8", "9">>

IsDigit(ch) == \E n \in 1..10 : Digits[n] = ch

DigitVal(ch) == (CHOOSE n \in 1..10 : Digits[n] = ch) - 1

RECURSIVE ParseDigits(_, _)
ParseDigits(s, acc) ==
  IF s = <<>> \/ ~IsDigit(Head(s)) THEN acc
  ELSE ParseDigits(Tail(s), acc * 10 + DigitVal(Head(s)))

\* Number.parseInt(headerTs, 10): an optional sign and the leading decimal
\* digits, whatever follows them; NaN when there is no leading digit
parseInt(s) ==
  LET neg == s # <<>> /\ Head(s) = "-"
      body == IF neg THEN Tail(s) ELSE s
  IN IF body = <<>> \/ ~IsDigit(Head(body)) THEN [finite |-> FALSE, value |-> 0]
     ELSE [finite |-> TRUE,
           value |-> IF neg THEN 0 - ParseDigits(body, 0) ELSE ParseDigits(body, 0)]

Abs(n) == IF n < 0 THEN 0 - n ELSE n

\* only an old timestamp is stale
FreshPastOnly(headerTs, maxAgeSeconds, nowSec) ==
  IF headerTs = <<>> THEN FALSE
  ELSE LET ts == parseInt(headerTs)
       IN IF ~ts.finite THEN FALSE
          ELSE nowSec - ts.value <= maxAgeSeconds

\* isTimestampFresh(headerTs, maxAgeSeconds) at wall-clock second nowSec
isTimestampFresh(headerTs, maxAgeSeconds, nowSec) ==
  IF headerTs = <<>> THEN FALSE
  ELSE LET ts == parseInt(headerTs)
       IN IF ~ts.finite THEN FALSE
          ELSE Abs(nowSec - ts.value) <= maxAgeSeconds

\* secret.split('_')
RECURSIVE SplitUnderscore(_, _)
SplitUnderscore(s, cur) ==
  IF s = <<>> THEN <<cur>>
  ELSE IF Head(s) = "_" THEN <<cur>> \o SplitUnderscore(Tail(s), <<>>)
  ELSE SplitUnderscore(Tail(s), Append(cur, Head(s)))

\* atob(b64) as bytes, and TextEncoder().encode(text)
base64DecodeToBytes(b64) == [atob |-> b64]
toUint8Array(text) == [utf8 |-> text]

\* HMAC-SHA256 as an ideal MAC: two tags are equal only for the same key
\* bytes and the same message (bytesToBase64 of the tag is one-to-one)
hmacSha256Base64(secretBytes, message) == <<[key |-> secretBytes, msg |-> message]>>

\* computeReplicateSignature: whsec_<base64>, the part after the first '_'
computeReplicateSignature(secret, content) ==
  LET parts == SplitUnderscore(secret, <<>>)
      base64Part == IF Len(parts) > 1 THEN parts[2] ELSE parts[1]
  IN hmacSha256Base64(base64DecodeToBytes(base64Part), content)

Base64Chars == {"a", "b", "c", "d", "k", "1", "2", "+", "/", "="}

looksLikeBase64(value) ==
  /\ value # <<>>
  /\ Len(value) % 4 = 0
  /\ \A i \in 1..Len(value) : value[i] \in Base64Chars

\* secretToBytes of utils/openai-webhook.ts: the part after the last '_'
\* when it looks like base64, else the bytes of the trimmed secret text
secretToBytes(secret) ==
  LET trimmed == Trim(secret)
      parts == SplitUnderscore(trimmed, <<>>)
      last == parts[Len(parts)]
      base == IF Len(parts) > 1 THEN (IF last # <<>> THEN last ELSE trimmed) ELSE trimmed
  IN IF looksLikeBase64(base) THEN base64DecodeToBytes(base) ELSE toUint8Array(trimmed)

computeOpenAISignature(secret, content) == hmacSha256Base64(secretToBytes(secret), content)

\* the signed string without the body
SignedContentNoBody(webhookId, webhookTimestamp, rawBody) ==
  webhookId \o <<".">> \o webhookTimestamp

\* `${webhookId}.${webhookTimestamp}.${rawBody}`
signedContent(webhookId, webhookTimestamp, rawBody) ==
  webhookId \o <<".">> \o webhookTimestamp \o <<".">> \o rawBody

\* parseWebhookSignatures: the header is a list of space-separated entries,
\* an entry a list of comma-separated parts; "v1,<sig>" yields <sig>, a bare
\* entry yields itself, empty results are dropped
parseWebhookSignatures(header) ==
  LET pick(t) == IF Len(t) > 1 THEN t[2] ELSE t[1]
      nonEmpty == SelectSeq(header, LAMBDA t : t # <<>> /\ t # << <<>> >>)
      picked == [i \in 1..Len(nonEmpty) |-> pick(nonEmpty[i])]
  IN SelectSeq(picked, LAMBDA v : v # <<>>)

\* the comparison loop: a candidate of the same length with no differing byte
SignatureMatches(computed, expected) ==
  \E i \in 1..Len(expected) :
    /\ Len(expected[i]) = Len(computed)
    /\ \A k \in 1..Len(computed) : expected[i][k] = computed[k]

\* the signature a verifier computes under its secret
ComputeSignature(provider, secret, content) ==
  IF provider = "replicate" THEN computeReplicateSignature(secret, content)
  ELSE computeOpenAISignature(secret, content)

\* verifyReplicateSignatureParts / verifyOpenAISignatureParts
verifySignatureParts(provider, secret, webhookId, webhookTimestamp, header, rawBody, maxAgeSeconds, nowSec) ==
  IF webhookId = <<>> \/ webhookTimestamp = <<>> \/ header = <<>> THEN FALSE
  ELSE IF ~isTimestampFresh(webhookTimestamp, maxAgeSeconds, nowSec) THEN FALSE
  ELSE LET computed == ComputeSignature(provider, secret,
                         signedContent(webhookId, webhookTimestamp, rawBody))
           expected == parseWebhookSignatures(header)
       IN IF expected = <<>> THEN FALSE ELSE SignatureMatches(computed, expected)

verifyReplicateSignatureParts(secret, webhookId, webhookTimestamp, header, rawBody, maxAgeSeconds, nowSec) ==
  verifySignatureParts("replicate", secret, webhookId, webhookTimestamp, header, rawBody, maxAgeSeconds, nowSec)

verifyOpenAISignatureParts(secret, webhookId, webhookTimestamp, header, rawBody, maxAgeSeconds, nowSec) ==
  verifySignatureParts("openai", secret, webhookId, webhookTimestamp, header, rawBody, maxAgeSeconds, nowSec)

\* verifyReplicateWebhook / verifyOpenAIWebhook: the response of the check
verifyWebhook(provider, secret, id, ts, sig, body, nowSec) ==
  IF id = <<>> \/ ts = <<>> \/ sig = <<>> THEN [ok |-> FALSE, code |-> 400]
  ELSE IF ~isTimestampFresh(ts, DEFAULT_MAX_AGE_SECONDS, nowSec) THEN [ok |-> FALSE, code |-> 400]
  ELSE IF ~verifySignatureParts(provider, secret, id, ts, sig, body, DEFAULT_MAX_AGE_SECONDS, nowSec)
       THEN [ok |-> FALSE, code |-> 403]
  ELSE [ok |-> TRUE, code |-> 200]

\* ---------------------------------------------------------------- verifier inputs
\* wall-clock second at which requests arrive
Epoch == 1000

\* decimal text of a natural number
RECURSIVE ToDigits(_)
ToDigits(n) == IF n < 10 THEN <<Digits[n + 1]>> ELSE Append(ToDigits(n \div 10), Digits[(n % 10) + 1])

Providers == {"replicate", "openai"}

SecretPool == { <<"w", "_", "a", "b", "c", "d">>, <<"w", "_", "k", "1", "2", "=">> }

\* key bytes the provider signs with: the base64 text after the whsec_ prefix
ProviderKey(secret) == base64DecodeToBytes(SubSeq(secret, 3, Len(secret)))

IdPool == { <<"e", "1">>, <<"e", "2">> }
IdChars == {"e", "1", "2", "."}

MaxAgePool == {DEFAULT_MAX_AGE_SECONDS, 60}

\* timestamps around both edges of each window
TsPool ==
  { ToDigits(Epoch + d) :
      d \in {0, 60, 61, -60, -61, DEFAULT_MAX_AGE_SECONDS, DEFAULT_MAX_AGE_SECONDS + 1,
             0 - DEFAULT_MAX_AGE_SECONDS, 0 - DEFAULT_MAX_AGE_SECONDS - 1} }
TsChars == {"0", "1", "5", "9", "x"}

RawBodyPool == { <<"p", "1">>, <<"p", "2">> }
BodyChars == {"p", "1", "2", "{"}

\* the texts that differ from s in exactly one position
Substitutions(s, chars) ==
  { [s EXCEPT ![i] = ch] : i \in 1..Len(s), ch \in chars } \ {s}

\* what arrives when (id, ts, body) was signed: the same, or one byte changed
Deliverable(id, ts, body) ==
  {<<id, ts, body>>}
    \cup {<<x, ts, body>> : x \in Substitutions(id, IdChars)}
    \cup {<<id, x, body>> : x \in Substitutions(ts, TsChars)}
    \cup {<<id, ts, x>> : x \in Substitutions(body, BodyChars)}

ForgedSig == <<[key |-> [atob |-> <<>>], msg |-> <<>>]>>

\* webhook-signature headers built around the provider's signature
HeaderForms(sig) ==
  { << <<<<"v", "1">>, sig>> >>,
    << <<sig>> >>,
    << <<<<"v", "1">>, ForgedSig>>, <<<<"v", "1">>, sig>> >>,
    << <<<<"v", "1">>, ForgedSig>> >>,
    << <<<<"v", "1">>, <<>>>> >>,
    <<>> }

\* one call of verify*SignatureParts on a delivered request
VerifyParts(provider, secret, signKey, id, ts, body, got, header, maxAge) ==
  /\ hook.state = "none"
  /\ hook' = [state |-> "checked", provider |-> provider, secret |-> secret,
              signed |-> [id |-> id, ts |-> ts, body |-> body, key |-> signKey],
              id |-> got[1], ts |-> got[2], body |-> got[3], sig |-> header,
              maxAge |-> maxAge, at |-> now,
              fresh |-> isTimestampFresh(got[2], maxAge, now),
              ok |-> verifySignatureParts(provider, secret, got[1], got[2], header, got[3], maxAge, now)]
  /\ UNCHANGED <<deaths, runs, calls, now, job, outbox, rate_limits, kv>>

InitVerify ==
  /\ deaths = <<>>
  /\ runs = [r \in Runs |-> IdleRun]
  /\ calls = [c \in Calls |-> IdleCall]
  /\ now = Epoch
  /\ hook = IdleHook
  /\ job = IdleJob
  /\ outbox = IdleOutbox
  /\ rate_limits = <<>>
  /\ kv = IdleKv

NextVerify ==
  /\ hook.state = "none"
  /\ \E provider \in Providers, secret \in SecretPool, signer \in SecretPool,
        id \in IdPool, ts \in TsPool, body \in RawBodyPool, maxAge \in MaxAgePool :
    \E got \in Deliverable(id, ts, body) :
      \E header \in HeaderForms(hmacSha256Base64(ProviderKey(signer), signedContent(id, ts, body))) :
        VerifyParts(provider, secret, ProviderKey(signer), id, ts, body, got, header, maxAge)

SpecVerify == InitVerify /\ [][NextVerify]_vars

\* the signature the provider attached: over what it signed, with its key
ProviderSig(signed) ==
  <<[key |-> signed.key, msg |-> signed.id \o <<".">> \o signed.ts \o <<".">> \o signed.body]>>

\* the delivered id, timestamp and body are the signed ones
Untampered(h) == h.id = h.signed.id /\ h.ts = h.signed.ts /\ h.body = h.signed.body

\* the signature header lists the provider's signature
CarriesSig(h) == \E i \in 1..Len(h.sig) : h.sig[i][Len(h.sig[i])] = ProviderSig(h.signed)

\* the provider signed with the key of the secret the verifier is configured with
RightKey(h) == h.signed.key = ProviderKey(h.secret)

AllDigits(s) == \A i \in 1..Len(s) : IsDigit(s[i])

\* C11: a fresh request that carries the provider's HMAC over
\* "{id}.{timestamp}.{body}" under the configured secret is accepted, and a
\* request whose id, timestamp or body differs in one byte from what was
\* signed is rejected.
C11_SignatureVerification ==
  hook.state = "checked" =>
    /\ (Untampered(hook) /\ CarriesSig(hook) /\ RightKey(hook) /\ hook.fresh) => hook.ok
    /\ ~Untampered(hook) => ~hook.ok

\* a delivery with one body byte changed, fresh and otherwise correctly signed
C11_Witness ==
  /\ hook.state = "checked"
  /\ hook.body # hook.signed.body
  /\ hook.id = hook.signed.id /\ hook.ts = hook.signed.ts
  /\ CarriesSig(hook) /\ RightKey(hook) /\ hook.fresh
  /\ ~hook.ok

\* C12: a numeric timestamp more than max_age seconds before or after the
\* current time is rejected whatever the signature, and one at most max_age
\* away passes the freshness check.
C12_FreshnessWindow ==
  (hook.state = "checked" /\ AllDigits(hook.ts)) =>
    LET away == Abs(hook.at - ParseDigits(hook.ts, 0))
    IN /\ away > hook.maxAge => (~hook.fresh /\ ~hook.ok)
       /\ away <= hook.maxAge => hook.fresh

\* a correctly signed delivery stamped more than max_age in the future
C12_Witness ==
  /\ hook.state = "checked"
  /\ Untampered(hook) /\ CarriesSig(hook) /\ RightKey(hook)
  /\ AllDigits(hook.ts)
  /\ ParseDigits(hook.ts, 0) - hook.at > hook.maxAge
  /\ ~hook.ok

\* ---------------------------------------------------------------- webhook endpoints
\* the manualOverride closure of both webhook routes: the Authorization
\* header, with or without a Bearer prefix, equals MANUAL_RUN_SECRET
manualOverride(authorization, manualSecret) ==
  LET trimmed == Trim(authorization)
      bearer == /\ Len(trimmed) > 2
                /\ trimmed[1] \in {"Bearer", "bearer"}
                /\ trimmed[2] = " "
                /\ TrimLeft(SubSeq(trimmed, 2, Len(trimmed))) # <<>>
      token == IF bearer THEN Trim(SubSeq(trimmed, 2, Len(trimmed))) ELSE trimmed
  IN IF trimmed = <<>> \/ manualSecret = <<>> THEN FALSE ELSE token = manualSecret

\* every request passes
GateOpen(provider, secret, override, id, ts, sig, body, nowSec) ==
  [ok |-> TRUE, code |-> 200]

\* if (env.<PROVIDER>_WEBHOOK_SECRET && !manualOverride) verify...; the
\* response when the request is turned away
WebhookGate(provider, secret, override, id, ts, sig, body, nowSec) ==
  IF secret # <<>> /\ ~override
  THEN verifyWebhook(provider, secret, id, ts, sig, body, nowSec)
  ELSE [ok |-> TRUE, code |-> 200]

\* JSON.parse(bodyText) and what the handler reads from the payload; for
\* OpenAI the output and the candidates come from retrieveOpenAIResponse
JsonParse(body) ==
  IF body = <<"p", "1">>
  THEN [valid |-> TRUE, status |-> "succeeded",
        output |-> Verdict("object", <<iA>>, <<rB>>), candidates |-> <<pA, pB>>]
  ELSE IF body = <<"p", "2">>
  THEN [valid |-> TRUE, status |-> "succeeded",
        output |-> Verdict("garbage", <<>>, <<>>), candidates |-> <<pA, pB>>]
  ELSE IF body = <<"p", "3">>
  THEN [valid |-> TRUE, status |-> "failed",
        output |-> Verdict("empty", <<>>, <<>>), candidates |-> <<pA, pB>>]
  ELSE [valid |-> FALSE, status |-> "", output |-> Verdict("empty", <<>>, <<>>), candidates |-> <<>>]

HookBodyPool == { <<"p", "1">>, <<"p", "2">>, <<"p", "3">>, <<"p", "{">> }

ManualSecret == <<"s", "1">>
AuthPool == { <<>>, <<"Bearer", " ", "s", "1">>, <<"s", "1">>, <<"Bearer", " ", "s", "2">> }

\* deliveries of a request the provider signed: as sent, a header missing,
\* sent too late, the body replaced, the signature forged
HookForms == {"valid", "noid", "nots", "nosig", "stale", "tampered", "forged"}

HookRequest(form, secret, body, other) ==
  LET ts == IF form = "stale" THEN ToDigits(Epoch - DEFAULT_MAX_AGE_SECONDS - 1) ELSE ToDigits(Epoch)
      id == <<"e", "1">>
      key == ProviderKey(secret)
      sig == hmacSha256Base64(key, signedContent(id, ts, body))
  IN [signed |-> [id |-> id, ts |-> ts, body |-> body, key |-> key],
      id |-> IF form = "noid" THEN <<>> ELSE id,
      ts |-> IF form = "nots" THEN <<>> ELSE ts,
      sig |-> IF form = "nosig" THEN <<>>
              ELSE IF form = "forged" THEN << <<<<"v", "1">>, ForgedSig>> >>
              ELSE << <<<<"v", "1">>, sig>> >>,
      body |-> IF form = "tampered" THEN other ELSE body]

\* top of replicateCallback / openaiWebhook: read the body, evaluate the
\* manual override, verify, and answer 400 / 403 when verification fails
Receive(provider, secret, manualSecret, authorization, request) ==
  /\ hook.state = "none"
  /\ LET override == manualOverride(authorization, manualSecret)
         gate == WebhookGate(provider, secret, override, request.id, request.ts,
                             request.sig, request.body, now)
     IN hook' = [state |-> IF gate.ok THEN "verified" ELSE "answered",
                 status |-> IF gate.ok THEN 0 ELSE gate.code,
                 provider |-> provider, secret |-> secret, manualSecret |-> manualSecret,
                 authorization |-> authorization, override |-> override,
                 signed |-> request.signed, id |-> request.id, ts |-> request.ts,
                 sig |-> request.sig, body |-> request.body, at |-> now]
  /\ UNCHANGED <<deaths, runs, calls, now, job, outbox, rate_limits, kv>>

\* a verified request whose payload is not reconciled: invalid JSON (400),
\* or a Replicate status other than succeeded (200, ignored)
DropPayload ==
  /\ hook.state = "verified"
  /\ LET payload == JsonParse(hook.body)
     IN /\ ~payload.valid \/ (hook.provider = "replicate" /\ payload.status # "succeeded")
        /\ hook' = [hook EXCEPT !.state = "answered",
                                !.status = IF payload.valid THEN 200 ELSE 400]
  /\ UNCHANGED <<deaths, runs, calls, now, job, outbox, rate_limits, kv>>

\* openaiWebhook for response.failed / response.cancelled: the candidates
\* of the response's metadata are marked error
OpenAiFailed ==
  /\ hook.state = "verified"
  /\ hook.provider = "openai"
  /\ LET payload == JsonParse(hook.body)
     IN /\ payload.valid /\ payload.status # "succeeded"
        /\ deaths' = UnparseableWrite(deaths, payload.candidates, now)
        /\ hook' = [hook EXCEPT !.state = "answered", !.status = 200]
  /\ UNCHANGED <<runs, calls, now, job, outbox, rate_limits, kv>>

\* a verified request with a completed payload enters the reconciler
ReconcilePayload ==
  /\ hook.state = "verified"
  /\ LET payload == JsonParse(hook.body)
     IN /\ payload.valid /\ payload.status = "succeeded"
        /\ StartReconcile("webhook",
                          IF hook.provider = "replicate" THEN "replicate-callback" ELSE "llm-output",
                          payload.candidates, <<>>, payload.output)

InitWebhook ==
  /\ deaths = <<>>
  /\ runs = [r \in Runs |-> IdleRun]
  /\ calls = [c \in Calls |-> IdleCall]
  /\ now = Epoch
  /\ hook = IdleHook
  /\ job = IdleJob
  /\ outbox = IdleOutbox
  /\ rate_limits = <<>>
  /\ kv = IdleKv

NextWebhook ==
  \/ InsertBatch(1, ScanBatch)
  \/ /\ hook.state = "none"
     /\ \E provider \in Providers, secret \in {<<>>, <<"w", "_", "a", "b", "c", "d">>},
           manualSecret \in {<<>>, ManualSecret}, authorization \in AuthPool,
           form \in HookForms, body \in HookBodyPool, other \in HookBodyPool :
          Receive(provider, secret, manualSecret, authorization,
                  HookRequest(form, <<"w", "_", "a", "b", "c", "d">>, body, other))
  \/ DropPayload
  \/ OpenAiFailed
  \/ ReconcilePayload
  \/ Approve("webhook")
  \/ Reject("webhook")

SpecWebhook == InitWebhook /\ [][NextWebhook]_vars

\* a header is missing
MissingHeader(h) == h.id = <<>> \/ h.ts = <<>> \/ h.sig = <<>>

\* the timestamp is further than the window from the time of arrival
StaleStamp(h) ==
  h.ts # <<>> /\ Abs(h.at - ParseDigits(h.ts, 0)) > DEFAULT_MAX_AGE_SECONDS

\* no listed signature is the provider's HMAC over the delivered content
NoMatchingSig(h) ==
  \A i \in 1..Len(h.sig) :
    h.sig[i][Len(h.sig[i])] #
      <<[key |-> h.signed.key, msg |-> h.id \o <<".">> \o h.ts \o <<".">> \o h.body]>>

\* the request carries the manual-override bearer token
CarriesOverride(h) ==
  h.manualSecret # <<>> /\ h.authorization \in {h.manualSecret, <<"Bearer", " ">> \o h.manualSecret}

\* C13: a webhook request with a missing header, a stale timestamp or no
\* matching signature, and without the manual-override token, is answered
\* 400 (missing or stale) or 403 (bad signature), never enters the
\* reconciler, and leaves every record's verdict as it was.
C13_UnverifiedNeverMutates ==
  (hook.state # "none" /\ ~CarriesOverride(hook)
     /\ (MissingHeader(hook) \/ StaleStamp(hook) \/ NoMatchingSig(hook))) =>
    /\ hook.state = "answered"
    /\ hook.status = IF MissingHeader(hook) \/ StaleStamp(hook) THEN 400 ELSE 403
    /\ calls["webhook"] = IdleCall
    /\ \A i \in 1..Len(deaths) : deaths[i].llm_result = "pending"

\* ---------------------------------------------------------------- dispatch and drain
\* fetchWithRetry(input, init, {retries}): replies[k] is the outcome of the
\* k-th HTTP request ("ok", "4xx", "5xx", "neterr").  A 5xx response or a
\* network error is retried while attempts remain; a 4xx response is returned.
\* sends counts the HTTP requests made; ok is res.ok of the returned response,
\* FALSE also when the last error is thrown.
RECURSIVE fetchAttempt(_, _, _)
fetchAttempt(retries, replies, attempt) ==
  LET reply == replies[attempt + 1]
  IN IF reply = "ok" THEN [ok |-> TRUE, sends |-> attempt + 1]
     ELSE IF reply = "4xx" THEN [ok |-> FALSE, sends |-> attempt + 1]
     ELSE IF attempt = retries THEN [ok |-> FALSE, sends |-> attempt + 1]
     ELSE fetchAttempt(retries, replies, attempt + 1)

fetchWithRetry(retries, replies) == fetchAttempt(retries, replies, 0)

\* callReplicate / callOpenAI: one POST through fetchWithRetry with
\* { retries: 1 }; throws when the response is not ok
callProvider(replies) == fetchWithRetry(1, replies)

\* the selected loop of applyLlmOutput from item i on, run to its end
RECURSIVE ApproveFrom(_, _, _, _, _, _)
ApproveFrom(db, route, items, i, candidates, t) ==
  IF i > Len(items) THEN db
  ELSE CHOOSE out \in
         { ApproveFrom(IF wp # <<>>
                       THEN updateDeathLLM(db, wp, items[i].cause, items[i].description, t)
                       ELSE db,
                       route, items, NextNamed(items, i + 1), candidates, t) :
             wp \in {ItemPath(route, items[i], candidates)} } : TRUE

\* the rejected part of applyLlmOutput, after the selected loop left the
\* table as approved
RejectAfter(approved, rejected, selectedSet, candidates, t) ==
  IF rejected # <<>>
  THEN markDeathsAsNo(approved, FilteredRejections(rejected, selectedSet, candidates), t)
  ELSE approved

\* applyLlmOutput (or the inline Replicate handler) run from start to return
\* on table db: the table it leaves
applyLlmOutput(db, route, v, cands, t) ==
  CHOOSE out \in
    { IF v.kind \in {"empty", "garbage"} THEN UnparseableWrite(db, candidates, t)
      ELSE CHOOSE left \in
             { RejectAfter(approved, rejected, selectedSet, candidates, t) :
                 approved \in {ApproveFrom(db, route, selected, NextNamed(selected, 1),
                                           candidates, t)},
                 rejected \in {normalizeRejected(v.rejected, route, candidates)},
                 selectedSet \in {SelectedSet(route, selected, candidates)} } : TRUE :
        candidates \in {TrimAll(cands)}, selected \in {SelectedItems(v)} } : TRUE

\* what the classifier answers for a batch: a verdict for every candidate,
\* text that is not JSON, or a list that names none of them
OutputOf(behaviour, chunk) ==
  IF behaviour = "decide"
  THEN Verdict("object", <<>>, [i \in 1..Len(chunk) |-> [wiki_path |-> chunk[i], reason |-> "r"]])
  ELSE IF behaviour = "garbage" THEN Verdict("garbage", <<>>, <<>>)
  ELSE Verdict("array", <<>>, <<>>)

\* Number.POSITIVE_INFINITY
POSITIVE_INFINITY == 0 - 1

IsFinite(n) == n # POSITIVE_INFINITY

Min(a, b) == IF a < b THEN a ELSE b


\* a < b with b possibly infinite
LessInf(a, b) == IF IsFinite(b) THEN a < b ELSE TRUE

\* selectPendingDeaths(env, limit): up to limit pending rows, in rowid order
selectPendingDeaths(db, limit) ==
  LET pending == SelectSeq(db, LAMBDA row : row.llm_result = "pending")
  IN SubSeq(pending, 1, Min(limit, Len(pending)))

\* a dispatch that discards the batch when the provider call fails
EvaluateDiscarding(db, provider, background, behaviour, replies, chunk, t) ==
  LET res == callProvider(replies)
  IN [provider |-> provider, threw |-> ~res.ok, sends |-> res.sends,
      mode |-> IF ~res.ok THEN "threw"
               ELSE IF provider = "replicate" \/ background THEN "queued" ELSE "completed",
      db |-> IF ~res.ok THEN markDeathsAsError(db, chunk, t)
             ELSE IF provider = "openai" /\ ~background
             THEN applyLlmOutput(db, "llm-output", OutputOf(behaviour, chunk), chunk, t)
             ELSE db]

\* evaluateDeaths(env, entries, {provider}) on a non-empty batch: the
\* provider call, and for a synchronous OpenAI response the reconciliation
evaluateDeaths(db, provider, background, behaviour, replies, chunk, t) ==
  LET res == callProvider(replies)
  IN [provider |-> provider,
      threw |-> ~res.ok,
      sends |-> res.sends,
      mode |-> IF ~res.ok THEN "threw"
               ELSE IF provider = "replicate" \/ background THEN "queued" ELSE "completed",
      db |-> IF res.ok /\ provider = "openai" /\ ~background
             THEN applyLlmOutput(db, "llm-output", OutputOf(behaviour, chunk), chunk, t)
             ELSE db]

\* constants of runPending
FETCH_MAX == 400
DEFAULT_LIMIT == 120
OPENAI_CHUNK == 20
REPLICATE_CHUNK == 30

\* per-record dispatch counts and the read count of the running job stop
\* counting here
DispatchCap == 2

\* the queued counter stops counting here (above every finite limit used)
QueuedCap == 1200

PathsOf(rows) == [i \in 1..Len(rows) |-> rows[i].wiki_path]

CountOf(box, p) == IF p \in DOMAIN box.count THEN box.count[p] ELSE 0

\* the outbox after one provider call for chunk
Posted(box, chunk, res) ==
  LET ps == SeqRange(chunk)
  IN [box EXCEPT
        !.count = [p \in (DOMAIN box.count) \cup ps |->
                     IF p \in ps THEN Min(CountOf(box, p) + 1, DispatchCap) ELSE CountOf(box, p)],
        !.flight = IF res.mode = "queued" THEN @ \cup {<<res.provider, chunk>>} ELSE @,
        !.failed = IF res.threw THEN @ \cup ps ELSE @,
        !.sends = res.sends]

\* runPending's option handling: limit, maxTotal
PendingLimit(provider, limitOpt, drainOpt) ==
  LET drain == provider = "openai" /\ drainOpt
      limit == IF limitOpt > 0 THEN limitOpt
               ELSE IF drain THEN POSITIVE_INFINITY ELSE DEFAULT_LIMIT
  IN IF provider = "replicate" /\ IsFinite(limit) THEN Min(limit, FETCH_MAX) ELSE limit

\* a loop that sends everything it selected in one batch
ChunkWhole(provider) == FETCH_MAX

\* const CHUNK = provider === 'openai' ? 20 : 30
ChunkSize(provider) == IF provider = "openai" THEN OPENAI_CHUNK ELSE REPLICATE_CHUNK

\* a job's fixed part: who runs it, against which provider, and how the
\* provider behaves during it (the failAt-th call gets `replies`)
JobSetup(kind, provider, background, behaviour, failAt, replies, limitOpt, drainOpt) ==
  [kind |-> kind, provider |-> provider, background |-> background,
   behaviour |-> behaviour, failAt |-> failAt, replies |-> replies,
   limitOpt |-> limitOpt, drainOpt |-> drainOpt]

RepliesFor(j) == IF j.calls + 1 = j.setup.failAt THEN j.setup.replies ELSE <<"ok">>

\* entry of runPending (directly, or at the end of runJob with the inserted
\* paths excluded): the loop's variables
EnterPending(setup, seq, excludePaths, db) ==
  [pc |-> "fetch", seq |-> seq, setup |-> setup,
   maxTotal |-> PendingLimit(setup.provider, setup.limitOpt, setup.drainOpt),
   excludeSet |-> SeqRange(TrimAll(excludePaths)) \ {<<>>},
   queued |-> 0, sawRows |-> FALSE, rows |-> <<>>, i |-> 1, rowsLen |-> 0, fetchLimit |-> 0,
   calls |-> 0, reads |-> 0, inserted |-> excludePaths,
   staleAtStart |-> outbox.stale, failedAtStart |-> outbox.failed,
   pendingAtStart |-> {db[k].wiki_path : k \in {n \in 1..Len(db) : db[n].llm_result = "pending"}}]

\* manualRun with retry_pending: runPending(env, {limit, provider, drain})
StartPending(setup) ==
  /\ job.pc \in {"idle", "done", "failed"}
  /\ setup.kind = "runPending"
  /\ job' = EnterPending(setup, job.seq + 1, <<>>, deaths)
  /\ outbox' = [outbox EXCEPT !.count = <<>>, !.sends = 0]
  /\ UNCHANGED <<deaths, runs, calls, now, hook, rate_limits, kv>>

\* runJob from the insert on: insertBatchReturningNew, then the dispatch of
\* the inserted rows is next
StartRunJob(setup, batch) ==
  /\ job.pc \in {"idle", "done", "failed"}
  /\ setup.kind = "runJob"
  /\ LET res == insertBatchReturningNew(deaths, batch)
         inserted == PathsOf(res.newOnes)
     IN /\ deaths' = res.db
        /\ job' = IF inserted = <<>>
                  THEN EnterPending(setup, job.seq + 1, <<>>, res.db)
                  ELSE [EnterPending(setup, job.seq + 1, inserted, deaths)
                          EXCEPT !.pc = "new", !.rows = inserted]
  /\ outbox' = [outbox EXCEPT !.count = <<>>, !.sends = 0]
  /\ UNCHANGED <<runs, calls, now, hook, rate_limits, kv>>

\* runJob's dispatch of the inserted rows: one evaluateDeaths for all of
\* them, or one per 20 rows for OpenAI with more than 20
DispatchNew ==
  /\ job.pc = "new"
  /\ LET setup == job.setup
         size == IF setup.provider = "openai" /\ Len(job.rows) > OPENAI_CHUNK
                 THEN OPENAI_CHUNK ELSE Len(job.rows)
         chunk == SubSeq(job.rows, job.i, Min(job.i + size - 1, Len(job.rows)))
     IN \E res \in {evaluateDeaths(deaths, setup.provider, setup.background, setup.behaviour,
                                    RepliesFor(job), chunk, now)} :
        /\ deaths' = res.db
        /\ outbox' = Posted(outbox, chunk, res)
        /\ job' = IF res.threw THEN [job EXCEPT !.pc = "failed"]
                  ELSE [job EXCEPT !.i = @ + size,
                                   !.calls = Min(@ + 1, DispatchCap),
                                   !.pc = IF job.i + size > Len(job.rows) THEN "fetch" ELSE "new"]
  /\ UNCHANGED <<runs, calls, now, hook, rate_limits, kv>>

\* head of runPending's while loop: the loop test, selectPendingDeaths, the
\* exclusion filter and the slice
FetchPending ==
  /\ job.pc = "fetch"
  /\ LET remaining == IF IsFinite(job.maxTotal) THEN job.maxTotal - job.queued ELSE FETCH_MAX
         extra == Min(Cardinality(job.excludeSet), FETCH_MAX)
         fetchLimit == Min(FETCH_MAX, remaining + extra)
         rows == PathsOf(selectPendingDeaths(deaths, fetchLimit))
         filtered == SelectSeq(rows, LAMBDA p : Trim(p) \notin job.excludeSet)
         sliceLimit == IF IsFinite(job.maxTotal)
                       THEN Min(Len(filtered), job.maxTotal - job.queued) ELSE Len(filtered)
         selected == SubSeq(filtered, 1, sliceLimit)
     IN job' = IF ~LessInf(job.queued, job.maxTotal) THEN [job EXCEPT !.pc = "done"]
               ELSE IF rows = <<>>
               THEN [job EXCEPT !.pc = "done", !.reads = Min(@ + 1, DispatchCap)]
               ELSE IF selected = <<>>
               THEN [job EXCEPT !.pc = "done", !.sawRows = TRUE, !.reads = Min(@ + 1, DispatchCap)]
               ELSE [job EXCEPT !.pc = "dispatch", !.sawRows = TRUE, !.rows = selected,
                                !.i = 1, !.rowsLen = Len(rows), !.fetchLimit = fetchLimit,
                                !.reads = Min(@ + 1, DispatchCap)]
  /\ UNCHANGED <<deaths, runs, calls, now, hook, outbox, rate_limits, kv>>

\* one iteration of runPending's chunk loop, and after the last chunk the
\* two break tests at the end of the while body
DispatchPending ==
  /\ job.pc = "dispatch"
  /\ LET setup == job.setup
         size == ChunkSize(setup.provider)
         chunk == SubSeq(job.rows, job.i, Min(job.i + size - 1, Len(job.rows)))
         last == job.i + size > Len(job.rows)
     IN \E res \in {evaluateDeaths(deaths, setup.provider, setup.background, setup.behaviour,
                                    RepliesFor(job), chunk, now)} :
        /\ deaths' = res.db
        /\ outbox' = Posted(outbox, chunk, res)
        /\ job' = IF res.threw THEN [job EXCEPT !.pc = "failed"]
                  ELSE [job EXCEPT !.i = @ + size,
                                   !.queued = Min(@ + Len(chunk), QueuedCap),
                                   !.calls = Min(@ + 1, DispatchCap),
                                   !.pc = IF ~last THEN "dispatch"
                                          ELSE IF setup.provider = "replicate" THEN "done"
                                          ELSE IF job.rowsLen < job.fetchLimit THEN "done"
                                          ELSE "fetch"]
  /\ UNCHANGED <<runs, calls, now, hook, rate_limits, kv>>

\* ---------------------------------------------------------------- callback correlation
\* seqs.join(sep)
RECURSIVE JoinWith(_, _)
JoinWith(seqs, sep) ==
  IF seqs = <<>> THEN <<>>
  ELSE IF Len(seqs) = 1 THEN Head(seqs)
  ELSE Head(seqs) \o sep \o JoinWith(Tail(seqs), sep)

\* s.split(sep) for a one-character separator: cur is the piece being read
RECURSIVE SplitAt(_, _, _)
SplitAt(s, sep, cur) ==
  IF s = <<>> THEN <<cur>>
  ELSE IF Head(s) = sep THEN <<cur>> \o SplitAt(Tail(s), sep, <<>>)
  ELSE SplitAt(Tail(s), sep, Append(cur, Head(s)))

RECURSIVE SkipNewlines(_)
SkipNewlines(s) == IF s # <<>> /\ Head(s) = "\n" THEN SkipNewlines(Tail(s)) ELSE s

\* s.split(/\n\n+/)
RECURSIVE SplitBlankLines(_, _)
SplitBlankLines(s, cur) ==
  IF s = <<>> THEN <<cur>>
  ELSE IF Len(s) >= 2 /\ s[1] = "\n" /\ s[2] = "\n"
  THEN <<cur>> \o SplitBlankLines(SkipNewlines(s), <<>>)
  ELSE SplitBlankLines(Tail(s), Append(cur, Head(s)))

\* String.prototype.trim on text that can hold line breaks
RECURSIVE TrimWs(_)
TrimWs(s) ==
  IF s # <<>> /\ Head(s) \in {" ", "\n"} THEN TrimWs(Tail(s))
  ELSE IF s # <<>> /\ s[Len(s)] \in {" ", "\n"} THEN TrimWs(SubSeq(s, 1, Len(s) - 1))
  ELSE s

NonEmpty(seqs) == SelectSeq(seqs, LAMBDA s : s # <<>>)

\* one input line of the prompt: the trimmed, non-empty fields of the
\* entry joined by ', ', the wiki_path last
PromptLine(e) ==
  JoinWith(NonEmpty(<< <<e.name>>,
                       IF e.description = NULL THEN <<>> ELSE <<e.description>>,
                       IF e.cause = NULL THEN <<>> ELSE <<e.cause>>,
                       Trim(e.wiki_path) >>),
           <<",", " ">>)

InputMarker == "Input (each line:"

\* buildReplicatePrompt: the lines of the prompt joined by '\n'; the task
\* and format paragraphs are one word each
buildReplicatePrompt(newEntries, forcedWikiPaths) ==
  LET lines == [k \in 1..Len(newEntries) |-> PromptLine(newEntries[k])]
      forceNote == TrimAll(forcedWikiPaths)
  IN JoinWith(<< <<"task">> >>
                \o (IF forceNote # <<>>
                    THEN << <<>>, <<"override">>, <<>>, JoinWith(forceNote, <<",", " ">>) >>
                    ELSE <<>>)
                \o << <<>>, <<"format">>, <<>>, <<"----">>,
                      <<InputMarker, " ", "name", ",", " ", "wiki_path", ")", ":">>,
                      <<>>, JoinWith(lines, <<"\n", "\n">>), <<"----">> >>,
              <<"\n">>)

\* RegExp.exec returned null
NoMatch == <<"no match">>

\* /Input \(each line:[\s\S]*?----\n([\s\S]*?)\n----/.exec(prompt): the
\* captured group, or <<"no match">> for null.  The leftmost marker that
\* has a match, then the nearest '----\n' after it that a '\n----' follows,
\* then the nearest such '\n----'
InputBlock(prompt) ==
  LET n == Len(prompt)
      closes(j) == {k \in (j + 2)..(n - 1) : prompt[k] = "\n" /\ prompt[k + 1] = "----"}
      opens(i) == {j \in (i + 1)..(n - 1) :
                     prompt[j] = "----" /\ prompt[j + 1] = "\n" /\ closes(j) # {}}
      starts == {i \in 1..n : prompt[i] = InputMarker /\ opens(i) # {}}
  IN IF starts = {} THEN NoMatch
     ELSE LET i == CHOOSE x \in starts : \A y \in starts : x <= y
              j == CHOOSE x \in opens(i) : \A y \in opens(i) : x <= y
              k == CHOOSE x \in closes(j) : \A y \in closes(j) : x <= y
          IN SubSeq(prompt, j + 2, k - 1)

\* line.split(',').pop() || ''
LastField(line) ==
  LET fields == SplitAt(line, ",", <<>>) IN fields[Len(fields)]

\* extractWikiPathsFromPrompt, and the same lines of callReplicate
extractWikiPathsFromPrompt(prompt) ==
  LET block == InputBlock(prompt)
  IN IF block = NoMatch \/ block = <<>> THEN <<>>
     ELSE LET lines == SplitBlankLines(block, <<>>)
          IN NonEmpty([k \in 1..Len(lines) |-> TrimWs(LastField(TrimWs(lines[k])))])

\* families of hosted models callReplicate tells apart
ModelFamilies == {"openai/", "gemini", "other"}

\* DEFAULT_MODEL = 'openai/gpt-5-mini'
DefaultFamily == "openai/"

\* callReplicate: the request body.  metadata is attached only for models
\* outside the openai/ family; absent keys are empty lists
ReplicateBody(family, prompt, forcedPaths) ==
  LET allowMetadata == family # "openai/"
      block == InputBlock(prompt)
  IN [prompt |-> prompt,
      candidates |-> IF allowMetadata /\ block # NoMatch /\ block # <<>>
                     THEN extractWikiPathsFromPrompt(prompt) ELSE <<>>,
      forcedPaths |-> IF allowMetadata /\ forcedPaths # <<>> THEN TrimAll(forcedPaths) ELSE <<>>]

\* extractCandidatePathsFromReplicatePayload: payload.metadata.candidates,
\* or else the prompt the payload echoes
extractCandidatePathsFromReplicatePayload(payload) ==
  IF TrimAll(payload.candidates) # <<>> THEN TrimAll(payload.candidates)
  ELSE extractWikiPathsFromPrompt(payload.prompt)

\* JSON.stringify of a list of strings
JsonStringify(paths) ==
  <<"[">> \o JoinWith([k \in 1..Len(paths) |-> <<"\"">> \o paths[k] \o <<"\"">>], <<",">>)
    \o <<"]">>

\* JSON.parse of such a text: the quoted strings, in order
RECURSIVE JsonStrings(_, _, _)
JsonStrings(text, inside, cur) ==
  IF text = <<>> THEN <<>>
  ELSE IF Head(text) = "\""
  THEN IF inside THEN <<cur>> \o JsonStrings(Tail(text), FALSE, <<>>)
       ELSE JsonStrings(Tail(text), TRUE, <<>>)
  ELSE IF inside THEN JsonStrings(Tail(text), TRUE, Append(cur, Head(text)))
  ELSE JsonStrings(Tail(text), FALSE, cur)

\* evaluateDeaths for OpenAI: metadata = { candidates: JSON.stringify(candidatePaths) }
OpenAiMetadata(candidatePaths) ==
  [candidates |-> IF candidatePaths # <<>> THEN JsonStringify(candidatePaths) ELSE <<>>,
   forcedPaths |-> <<>>]

\* extractCandidatesFromMetadata of the OpenAI webhook
extractCandidatesFromMetadata(metadata) ==
  IF metadata.candidates = <<>> THEN <<>>
  ELSE TrimAll(JsonStrings(metadata.candidates, FALSE, <<>>))

\* the prompt line of a stored path
EntryOf(path) == [name |-> "N", description |-> "d0", cause |-> NULL, wiki_path |-> path]

\* what the callback of a dispatched batch has to work with: the candidate
\* list it recovers and the forced list it is handed
Correlated(provider, family, chunk, forcedPaths) ==
  LET entries == [k \in 1..Len(chunk) |-> EntryOf(chunk[k])]
      prompt == buildReplicatePrompt(entries, forcedPaths)
  IN IF provider = "replicate"
     THEN LET body == ReplicateBody(family, prompt, forcedPaths)
          IN [candidates |-> extractCandidatePathsFromReplicatePayload(body),
              forcedPaths |-> body.forcedPaths]
     ELSE LET metadata == OpenAiMetadata(TrimAll(chunk))
          IN [candidates |-> extractCandidatesFromMetadata(metadata),
              forcedPaths |-> metadata.forcedPaths]

\* secret the deployment verifies webhooks with
WebhookSecret == <<"w", "_", "a", "b", "c", "d">>

\* The provider delivers the result of an in-flight batch to the webhook
\* route: in time, or ten minutes late.  A request the route turns away
\* changes nothing; an accepted one is reconciled against the batch.
Callback(delivery, form, behaviour) ==
  /\ delivery \in outbox.flight
  /\ LET provider == delivery[1]
         chunk == delivery[2]
         request == HookRequest(form, WebhookSecret, <<"p", "1">>, <<"p", "1">>)
         gate == WebhookGate(provider, WebhookSecret, FALSE, request.id, request.ts,
                             request.sig, request.body, now)
         route == IF provider = "replicate" THEN "replicate-callback" ELSE "llm-output"
     IN /\ deaths' = IF gate.ok
                     THEN applyLlmOutput(deaths, route, OutputOf(behaviour, chunk),
                                         Correlated(provider, DefaultFamily, chunk, <<>>).candidates,
                                         now)
                     ELSE deaths
        /\ outbox' = [outbox EXCEPT !.flight = @ \ {delivery},
                                    !.stale = IF form = "stale" THEN @ \cup SeqRange(chunk) ELSE @]
        /\ hook' = [state |-> "answered", status |-> gate.code, form |-> form,
                    batch |-> chunk, seq |-> job.seq]
  /\ UNCHANGED <<runs, calls, now, job, rate_limits, kv>>

\* invocations a model run starts one after the other
MaxJobs == 2

\* outcomes of the HTTP requests of the provider call that goes wrong
ReplyPool == { <<"4xx">>, <<"5xx", "5xx">>, <<"neterr", "neterr">>, <<"5xx", "ok">> }

\* the ways a job can be set up
JobSetups(kind) ==
  { JobSetup(kind, provider, background, behaviour, failAt, replies, limitOpt, drainOpt) :
      provider \in Providers, background \in BOOLEAN,
      behaviour \in {"decide", "garbage", "omit"}, failAt \in {0, 1},
      replies \in ReplyPool \cup {<<"ok">>}, limitOpt \in {0, 1}, drainOpt \in BOOLEAN }

\* one representative per distinguishable setup
Distinct(setup) ==
  /\ setup.provider = "replicate" => (setup.background /\ ~setup.drainOpt)
  /\ setup.background => setup.behaviour = "decide"
  /\ (setup.failAt = 0) = (setup.replies = <<"ok">>)
  /\ setup.kind = "runJob" => (~setup.drainOpt /\ setup.limitOpt = 0)

InitJob ==
  /\ deaths = <<>>
  /\ runs = [r \in Runs |-> IdleRun]
  /\ calls = [c \in Calls |-> IdleCall]
  /\ now = Epoch
  /\ hook = IdleHook
  /\ job = IdleJob
  /\ outbox = IdleOutbox
  /\ rate_limits = <<>>
  /\ kv = IdleKv

NextJob ==
  \/ /\ job.seq < MaxJobs
     /\ \E setup \in {x \in JobSetups("runJob") : Distinct(x)} : StartRunJob(setup, ScanBatch)
  \/ /\ job.seq < MaxJobs
     /\ \E setup \in {x \in JobSetups("runPending") : Distinct(x)} : StartPending(setup)
  \/ DispatchNew
  \/ FetchPending
  \/ DispatchPending
  \/ \E delivery \in outbox.flight, form \in {"valid", "stale"}, behaviour \in {"decide", "garbage"} :
       Callback(delivery, form, behaviour)

SpecJob == InitJob /\ [][NextJob]_vars

\* ---------------------------------------------------------------- large backlogs
\* the i-th article of a large table
BigEntry(i) ==
  [name |-> "N", wiki_path |-> <<"R">> \o ToDigits(i), description |-> "d0", cause |-> NULL]

\* a table of n rows that are all pending
Backlog(n) == [i \in 1..n |-> NewRow(BigEntry(i))]

\* n entries a scan found that are not in a table of `have` rows
Scanned(have, n) == [i \in 1..n |-> BigEntry(have + i)]

\* sizes of the pending backlog before the invocation, and of the scan
BacklogPool == {1, 100, FETCH_MAX}
ScanPool == {FETCH_MAX - 100, FETCH_MAX - 1}

\* an explicit limit above FETCH_MAX
BigLimit == 500

\* the ways an invocation over a large table is set up; every provider
\* call succeeds
DrainSetups(kind) ==
  { JobSetup(kind, provider, background, behaviour, 0, <<"ok">>, limitOpt, drainOpt) :
      provider \in Providers, background \in BOOLEAN, behaviour \in {"decide", "omit"},
      limitOpt \in {0, BigLimit}, drainOpt \in BOOLEAN }

InitDrain ==
  /\ deaths \in {Backlog(n) : n \in BacklogPool}
  /\ runs = [r \in Runs |-> IdleRun]
  /\ calls = [c \in Calls |-> IdleCall]
  /\ now = Epoch
  /\ hook = IdleHook
  /\ job = IdleJob
  /\ outbox = IdleOutbox
  /\ rate_limits = <<>>
  /\ kv = IdleKv

NextDrain ==
  \/ /\ job.pc = "idle"
     /\ \E setup \in {x \in DrainSetups("runJob") : Distinct(x)}, n \in ScanPool :
          StartRunJob(setup, Scanned(Len(deaths), n))
  \/ /\ job.pc = "idle"
     /\ \E setup \in {x \in DrainSetups("runPending") : Distinct(x)} : StartPending(setup)
  \/ DispatchNew
  \/ FetchPending
  \/ DispatchPending

SpecDrain == InitDrain /\ [][NextDrain]_vars

\* manualRun with retry_pending and no pending_limit, provider openai:
\* runPending(env, {drain: true}); and with a pending_limit
DrainAllSetups ==
  {x \in DrainSetups("runPending") :
     Distinct(x) /\ x.provider = "openai" /\ x.drainOpt /\ x.background}

NextDrainAll ==
  \/ /\ job.pc = "idle"
     /\ \E setup \in DrainAllSetups : StartPending(setup)
  \/ FetchPending
  \/ DispatchPending

\* the invocation is not suspended forever: every await of the loop returns
SpecDrainAll ==
  InitDrain /\ [][NextDrainAll]_vars /\ WF_vars(FetchPending) /\ WF_vars(DispatchPending)

\* ---------------------------------------------------------------- properties of the job
\* the paths of db whose row is pending
PendingPaths(db) == {db[k].wiki_path : k \in {n \in 1..Len(db) : db[n].llm_result = "pending"}}

\* a runPending invocation that returned, with a limit that covers every
\* row that was pending when it started
DrainReturned(j) ==
  /\ j.pc = "done"
  /\ j.setup.kind = "runPending"
  /\ IsFinite(j.maxTotal) => Cardinality(j.pendingAtStart) <= j.maxTotal

\* every path of `marked` that was pending when drain j started has been
\* sent to the provider by j, unless something else decided it meanwhile
Redispatched(j, box, db, marked) ==
  \A p \in marked \cap j.pendingAtStart :
    CountOf(box, p) >= 1 \/ p \notin PendingPaths(db)

\* C14: a webhook delivery that arrives outside the freshness window is
\* answered 400 and changes no record, so the records of its batch that
\* were pending stay pending; and a later runPending whose limit covers the
\* pending rows sends every such record to the provider again.
C14_StaleCallbackRecoverable ==
  [][ /\ (hook' # hook /\ hook'.form = "stale") => (hook'.status = 400 /\ deaths' = deaths)
      /\ DrainReturned(job') => Redispatched(job', outbox', deaths', job'.staleAtStart) ]_vars

\* a drain has sent again a record whose callback was rejected as stale and
\* that is still pending
C14_Witness ==
  /\ DrainReturned(job)
  /\ hook.state = "answered" /\ hook.form = "stale" /\ hook.status = 400 /\ hook.seq < job.seq
  /\ \E p \in job.staleAtStart \cap PendingPaths(deaths) : CountOf(outbox, p) >= 1

Asynchronous(setup) == setup.provider = "replicate" \/ setup.background

\* C16: in one runJob cycle no record is sent to the classifier more than
\* once: a record inserted and dispatched in the cycle is not dispatched by
\* the drain that follows, and the drain dispatches each other pending
\* record at most once.
C16_NoDoubleDispatch ==
  (job.pc # "idle" /\ job.setup.kind = "runJob") =>
    \A p \in DOMAIN outbox.count : outbox.count[p] <= 1

\* C17: with asynchronous dispatch one runPending call reads the pending
\* set once and sends each pending record at most once.
C17_AsyncDrainOnePass ==
  (job.pc # "idle" /\ job.setup.kind = "runPending" /\ Asynchronous(job.setup)) =>
    /\ job.reads <= 1
    /\ \A p \in DOMAIN outbox.count : outbox.count[p] <= 1

\* a runPending call in drain-all mode
DrainAll(j) == j.pc # "idle" /\ j.setup.kind = "runPending" /\ ~IsFinite(j.maxTotal)

\* C18: a runPending call in drain-all mode always returns (or throws), and
\* when it has returned every record that is still pending has been
\* dispatched by it; it does not loop while dispatched records stay pending.
C18_DrainAllTerminates ==
  /\ [](DrainAll(job) => <>(job.pc \in {"done", "failed"}))
  /\ []((DrainAll(job) /\ job.pc = "done") =>
          \A p \in PendingPaths(deaths) : CountOf(outbox, p) >= 1)

\* ---------------------------------------------------------------- rate limiter
\* rate_limits is the table of that name: key -> [window_start, count].
\* makeKey: `rl:${scope}:${identifier}:${windowSeconds}`
makeKey(scope, identifier, windowSeconds) == <<"rl", scope, identifier, windowSeconds>>

\* Math.floor(nowSec / windowSeconds) * windowSeconds
WindowStart(nowSec, windowSeconds) == (nowSec \div windowSeconds) * windowSeconds

\* the upsert without the CASE: the count always grows
IncrementNoReset(table, key, windowSeconds, nowSec) ==
  LET windowStart == WindowStart(nowSec, windowSeconds)
      row == IF key \in DOMAIN table
             THEN [window_start |-> windowStart, count |-> table[key].count + 1]
             ELSE [window_start |-> windowStart, count |-> 1]
  IN [table |-> [k \in (DOMAIN table) \cup {key} |-> IF k = key THEN row ELSE table[k]],
      count |-> row.count, windowStart |-> row.window_start]

\* incrementAndGet: the upsert (same window: count + 1, else count = 1 and
\* the new window_start), then the SELECT of the row
incrementAndGet(table, key, windowSeconds, nowSec) ==
  LET windowStart == WindowStart(nowSec, windowSeconds)
      row == IF key \in DOMAIN table /\ table[key].window_start = windowStart
             THEN [window_start |-> windowStart, count |-> table[key].count + 1]
             ELSE [window_start |-> windowStart, count |-> 1]
  IN [table |-> [k \in (DOMAIN table) \cup {key} |-> IF k = key THEN row ELSE table[k]],
      count |-> row.count, windowStart |-> row.window_start]

\* firstExceeded before any window is exceeded
NoExceeded == [windowSeconds |-> 0, limit |-> 0, count |-> 0, resetSeconds |-> 0]

\* the result object of checkRateLimits, with the table it leaves
RateLimitResult(table, firstExceeded) ==
  [table |-> table, allowed |-> firstExceeded = NoExceeded, exceeded |-> firstExceeded]

\* exceeded entry of window w
ExceededOf(w, got, nowSec) ==
  [windowSeconds |-> w.windowSeconds, limit |-> w.limit, count |-> got.count,
   resetSeconds |-> IF got.windowStart + w.windowSeconds - nowSec > 0
                    THEN got.windowStart + w.windowSeconds - nowSec ELSE 0]

\* a loop that returns at the first exceeded window
RECURSIVE CheckUntilExceeded(_, _, _, _, _, _)
CheckUntilExceeded(table, scope, identifier, windows, nowSec, i) ==
  IF i > Len(windows) THEN RateLimitResult(table, NoExceeded)
  ELSE LET w == windows[i]
           got == incrementAndGet(table, makeKey(scope, identifier, w.windowSeconds),
                                  w.windowSeconds, nowSec)
       IN IF got.count > w.limit THEN RateLimitResult(got.table, ExceededOf(w, got, nowSec))
          ELSE CheckUntilExceeded(got.table, scope, identifier, windows, nowSec, i + 1)

\* the for loop of checkRateLimits from window i on
RECURSIVE CheckFrom(_, _, _, _, _, _, _)
CheckFrom(table, scope, identifier, windows, nowSec, i, firstExceeded) ==
  IF i > Len(windows) THEN RateLimitResult(table, firstExceeded)
  ELSE LET w == windows[i]
           got == incrementAndGet(table, makeKey(scope, identifier, w.windowSeconds),
                                  w.windowSeconds, nowSec)
       IN CheckFrom(got.table, scope, identifier, windows, nowSec, i + 1,
                    IF got.count > w.limit /\ firstExceeded = NoExceeded
                    THEN ExceededOf(w, got, nowSec) ELSE firstExceeded)

\* checkRateLimits stopping at the first exceeded window
CheckFirstOnly(table, scope, identifier, windows, nowSec) ==
  CheckUntilExceeded(table, scope, identifier, windows, nowSec, 1)

\* checkRateLimits(env, scope, identifier, windows)
checkRateLimits(table, scope, identifier, windows, nowSec) ==
  CheckFrom(table, scope, identifier, windows, nowSec, 1, NoExceeded)

\* calls a run makes, and seconds the clock advances
MaxChecks == 4
RateSpan == 4

\* configured windows (RUN_RATE_LIMITS): a single window, or a short and a
\* long one
WindowsPool ==
  { <<[windowSeconds |-> 2, limit |-> 1]>>,
    <<[windowSeconds |-> 2, limit |-> 2]>>,
    <<[windowSeconds |-> 3, limit |-> 3]>>,
    <<[windowSeconds |-> 2, limit |-> 1], [windowSeconds |-> 4, limit |-> 2]>>,
    <<[windowSeconds |-> 2, limit |-> 2], [windowSeconds |-> 4, limit |-> 1]>> }

\* CF-Connecting-IP values
IpPool == {"ip1", "ip2"}

\* top of manualRun: checkRateLimits for the caller's IP; 429 when not
\* allowed.  hook keeps the configuration, the answer, and a log of the
\* calls (history)
CheckRate(ip) ==
  /\ Len(hook.log) < MaxChecks
  /\ LET rl == checkRateLimits(rate_limits, "run", ip, hook.windows, now)
     IN /\ rate_limits' = rl.table
        /\ hook' = [hook EXCEPT !.state = "answered",
                                !.status = IF rl.allowed THEN 200 ELSE 429,
                                !.allowed = rl.allowed,
                                !.exceeded = rl.exceeded,
                                !.log = Append(@, [ip |-> ip, at |-> now, allowed |-> rl.allowed])]
  /\ UNCHANGED <<deaths, runs, calls, now, job, outbox, kv>>

\* a second passes
Advance ==
  /\ now < Epoch + RateSpan
  /\ now' = now + 1
  /\ UNCHANGED <<deaths, runs, calls, hook, job, outbox, rate_limits, kv>>

InitRate ==
  /\ deaths = <<>>
  /\ runs = [r \in Runs |-> IdleRun]
  /\ calls = [c \in Calls |-> IdleCall]
  /\ now = Epoch
  /\ hook \in {[state |-> "none", status |-> 0, allowed |-> TRUE, exceeded |-> NoExceeded,
                log |-> <<>>, windows |-> windows] : windows \in WindowsPool}
  /\ job = IdleJob
  /\ outbox = IdleOutbox
  /\ rate_limits = <<>>
  /\ kv = IdleKv

NextRate ==
  \/ \E ip \in IpPool : CheckRate(ip)
  \/ Advance

SpecRate == InitRate /\ [][NextRate]_vars

\* ---------------------------------------------------------------- properties of the limiter
\* number of logged calls of ip in the window of length ws that contains t
CallsInWindow(log, ip, ws, t) ==
  Cardinality({k \in 1..Len(log) :
                 log[k].ip = ip /\ WindowStart(log[k].at, ws) = WindowStart(t, ws)})

LastCall(h) == h.log[Len(h.log)]

\* C19: with one configured window of limit N, the k-th call of a caller
\* inside one window is allowed exactly when k <= N (so of N+1 calls only
\* the last is refused), the stored count is k, and the first call after
\* the window boundary finds the count reset to 1 and is allowed.
C19_WindowBehaviour ==
  (hook.state = "answered" /\ Len(hook.windows) = 1) =>
    LET w == hook.windows[1]
        c == LastCall(hook)
        k == CallsInWindow(hook.log, c.ip, w.windowSeconds, c.at)
        row == rate_limits[makeKey("run", c.ip, w.windowSeconds)]
    IN /\ c.allowed = (k <= w.limit)
       /\ row.count = k
       /\ row.window_start = WindowStart(c.at, w.windowSeconds)
       /\ k = 1 => (row.count = 1 /\ c.allowed)

\* the caller was refused on call N+1 of a window, and its first call in the
\* next window is allowed with count 1
C19_Witness ==
  /\ hook.state = "answered" /\ Len(hook.windows) = 1
  /\ LET w == hook.windows[1]
         c == LastCall(hook)
     IN /\ c.allowed
        /\ rate_limits[makeKey("run", c.ip, w.windowSeconds)].count = 1
        /\ \E k \in 1..(Len(hook.log) - 1) :
             /\ hook.log[k].ip = c.ip /\ ~hook.log[k].allowed
             /\ CallsInWindow(SubSeq(hook.log, 1, k), c.ip, w.windowSeconds, hook.log[k].at)
                  = w.limit + 1
             /\ WindowStart(hook.log[k].at, w.windowSeconds) < WindowStart(c.at, w.windowSeconds)

\* C20: a checkRateLimits call increments the counter of every configured
\* window: after the call each window's row counts all calls of the caller
\* in that window, also when an earlier window is exceeded and the call is
\* refused.
C20_AllWindowsCounted ==
  hook.state = "answered" =>
    LET c == LastCall(hook)
    IN \A i \in 1..Len(hook.windows) :
         LET w == hook.windows[i]
             key == makeKey("run", c.ip, w.windowSeconds)
         IN /\ key \in DOMAIN rate_limits
            /\ rate_limits[key].count = CallsInWindow(hook.log, c.ip, w.windowSeconds, c.at)

\* a refused call whose first window was already exceeded, and the second
\* window has counted it
C20_Witness ==
  /\ hook.state = "answered" /\ Len(hook.windows) = 2
  /\ ~hook.allowed
  /\ hook.exceeded.windowSeconds = hook.windows[1].windowSeconds
  /\ LET c == LastCall(hook)
         w == hook.windows[2]
     IN /\ rate_limits[makeKey("run", c.ip, w.windowSeconds)].count >= 2
        /\ \E k \in 1..(Len(hook.log) - 1) : hook.log[k].ip = c.ip /\ ~hook.log[k].allowed

\* ---------------------------------------------------------------- the trigger endpoint
\* request.headers.get('CF-Connecting-IP') || 'unknown'
ClientIp(header) == IF header = "" THEN "unknown" ELSE header

\* a handler that examines the bearer secret before the limiter's result
RunStatusAuthFirst(allowed, authorized) ==
  IF ~authorized THEN 401 ELSE IF ~allowed THEN 429 ELSE 0

\* the early returns of manualRun: 429 when a window is exceeded, then 401
\* when the token is not MANUAL_RUN_SECRET; 0 when the request goes on
RunStatus(allowed, authorized) ==
  IF ~allowed THEN 429 ELSE IF ~authorized THEN 401 ELSE 0

\* 'Retry-After': String(rl.exceeded.resetSeconds || 60)
RetryAfter(exceeded) == IF exceeded.resetSeconds = 0 THEN 60 ELSE exceeded.resetSeconds

\* requests the limiter let through and whose token was right
Admitted(log) == Cardinality({k \in 1..Len(log) : log[k].allowed /\ log[k].authorized})

\* requests a run receives, and seconds its clock advances
MaxRequests == 3
RunSpan == 2

\* manualRun up to the try block: the limiter, the 429, the token, the 401
ManualRun(header, authorization) ==
  /\ Len(hook.log) < MaxRequests
  /\ LET ip == ClientIp(header)
         rl == checkRateLimits(rate_limits, "run", ip, hook.windows, now)
         authorized == manualOverride(authorization, ManualSecret)
         status == RunStatus(rl.allowed, authorized)
     IN /\ rate_limits' = rl.table
        /\ hook' = [hook EXCEPT !.state = IF status = 0 THEN "admitted" ELSE "answered",
                                !.status = status,
                                !.allowed = rl.allowed,
                                !.exceeded = rl.exceeded,
                                !.retryAfter = IF rl.allowed THEN 0 ELSE RetryAfter(rl.exceeded),
                                !.log = Append(@, [ip |-> ip, at |-> now, allowed |-> rl.allowed,
                                                   authorized |-> authorized])]
  /\ UNCHANGED <<deaths, runs, calls, now, job, outbox, kv>>

\* what an admitted request runs: the full job, or the pending drain
RunSetups(kind) ==
  {x \in JobSetups(kind) :
     Distinct(x) /\ x.failAt = 0 /\ x.limitOpt = 0 /\ ~x.drainOpt /\ x.behaviour = "decide"}

\* RUN_RATE_LIMITS of the deployment
RunWindowsPool ==
  { <<[windowSeconds |-> 2, limit |-> 1]>>,
    <<[windowSeconds |-> 2, limit |-> 1], [windowSeconds |-> 4, limit |-> 2]>> }

\* the table is empty, or an earlier cron run left its rows pending
InitRun ==
  /\ deaths \in {<<>>, insertBatchReturningNew(<<>>, ScanBatch).db}
  /\ runs = [r \in Runs |-> IdleRun]
  /\ calls = [c \in Calls |-> IdleCall]
  /\ now = Epoch
  /\ hook \in {[state |-> "none", status |-> 0, allowed |-> TRUE, exceeded |-> NoExceeded,
                retryAfter |-> 0, log |-> <<>>, windows |-> windows] : windows \in RunWindowsPool}
  /\ job = IdleJob
  /\ outbox = IdleOutbox
  /\ rate_limits = <<>>
  /\ kv = IdleKv

NextRun ==
  \/ \E header \in {"", "ip1"}, authorization \in {<<"Bearer", " ", "s", "1">>, <<"s", "2">>} :
       ManualRun(header, authorization)
  \/ /\ now < Epoch + RunSpan
     /\ Advance
  \/ /\ job.pc = "idle" /\ Admitted(hook.log) > 0
     /\ \E setup \in RunSetups("runJob") : StartRunJob(setup, ScanBatch)
  \/ /\ job.pc = "idle" /\ Admitted(hook.log) > 0
     /\ \E setup \in RunSetups("runPending") : StartPending(setup)
  \/ DispatchNew
  \/ FetchPending
  \/ DispatchPending

SpecRun == InitRun /\ [][NextRun]_vars

\* C21: a manualRun request that exceeds a window is answered 429 with a
\* positive Retry-After whatever its Authorization header is, and the step
\* fetches nothing, writes no bucket, inserts and changes no record and
\* dispatches nothing; no job runs without a request that was let through.
C21_RateLimitedNoWork ==
  [][ /\ (hook'.log # hook.log /\ ~hook'.allowed) =>
           /\ hook'.status = 429
           /\ hook'.retryAfter >= 1
           /\ UNCHANGED <<deaths, runs, calls, job, outbox, kv>>
      /\ job'.seq <= Admitted(hook'.log) ]_vars

\* a request carrying the right token was refused with 429 while a job of
\* an earlier request had dispatched
C21_Witness ==
  /\ hook.state = "answered" /\ hook.status = 429
  /\ hook.log[Len(hook.log)].authorized
  /\ job.seq = 1 /\ outbox.count # <<>>

\* ---------------------------------------------------------------- monthly KV cache
\* UTF-16 code units of the characters the paths below are written with
CodeUnit(c) ==
  CASE c = " " -> 32
    [] c = "A" -> 65
    [] c = "B" -> 66
    [] c = "C" -> 67
    [] c = "X" -> 88
    [] c = "_" -> 95
    [] c = "|" -> 124

\* a < b on strings: code-unit order, a proper prefix sorts first
RECURSIVE StrLess(_, _)
StrLess(a, b) ==
  IF b = <<>> THEN FALSE
  ELSE IF a = <<>> THEN TRUE
  ELSE IF Head(a) = Head(b) THEN StrLess(Tail(a), Tail(b))
  ELSE CodeUnit(Head(a)) < CodeUnit(Head(b))

DELIM == "|"

\* paths.join(DELIM)
RECURSIVE JoinPaths(_)
JoinPaths(paths) ==
  IF paths = <<>> THEN <<>>
  ELSE IF Len(paths) = 1 THEN Head(paths)
  ELSE Head(paths) \o <<DELIM>> \o JoinPaths(Tail(paths))

\* raw.split(DELIM): cur is the piece being read
RECURSIVE SplitPaths(_, _)
SplitPaths(raw, cur) ==
  IF raw = <<>> THEN <<cur>>
  ELSE IF Head(raw) = DELIM THEN <<cur>> \o SplitPaths(Tail(raw), <<>>)
  ELSE SplitPaths(Tail(raw), Append(cur, Head(raw)))

\* Array.from(set).sort((a, b) => a < b ? -1 : a > b ? 1 : 0)
RECURSIVE SortedFrom(_)
SortedFrom(set) ==
  IF set = {} THEN <<>>
  ELSE LET least == CHOOSE x \in set : \A y \in set \ {x} : StrLess(x, y)
       IN <<least>> \o SortedFrom(set \ {least})

uniqueSorted(items) ==
  SortedFrom({Trim(items[k]) : k \in 1..Len(items)} \ {<<>>})

\* the first put creates the key; a missing key and an empty value both
\* read as no paths
getMonthlyPaths(store) ==
  IF store.bucket = <<>> THEN <<>>
  ELSE TrimAll(SplitPaths(store.bucket, <<>>))

putMonthlyPaths(store, paths) ==
  [store EXCEPT !.bucket = JoinPaths(uniqueSorted(paths)),
                !.ever = @ \cup SeqRange(uniqueSorted(paths))]

\* a diff that hands back everything scraped
DiffKeepAll(existingSorted, scrapedSorted) == scrapedSorted

RECURSIVE diffSorted(_, _)
diffSorted(existingSorted, scrapedSorted) ==
  IF existingSorted # <<>> /\ scrapedSorted # <<>>
  THEN IF Head(existingSorted) = Head(scrapedSorted)
       THEN diffSorted(Tail(existingSorted), Tail(scrapedSorted))
       ELSE IF StrLess(Head(existingSorted), Head(scrapedSorted))
       THEN diffSorted(Tail(existingSorted), scrapedSorted)
       ELSE <<Head(scrapedSorted)>> \o diffSorted(existingSorted, Tail(scrapedSorted))
  ELSE scrapedSorted

\* a merge that appends the second list to the first
MergeConcat(aSorted, bSorted) == aSorted \o bSorted

RECURSIVE mergeSortedUnique(_, _)
mergeSortedUnique(aSorted, bSorted) ==
  IF aSorted # <<>> /\ bSorted # <<>>
  THEN IF Head(aSorted) = Head(bSorted)
       THEN <<Head(aSorted)>> \o mergeSortedUnique(Tail(aSorted), Tail(bSorted))
       ELSE IF StrLess(Head(aSorted), Head(bSorted))
       THEN <<Head(aSorted)>> \o mergeSortedUnique(Tail(aSorted), bSorted)
       ELSE <<Head(bSorted)>> \o mergeSortedUnique(aSorted, Tail(bSorted))
  ELSE aSorted \o bSorted
\* the month-page scan of one runJob invocation, one step per await
IdleScan ==
  [pc |-> "idle", scraped |-> <<>>, existing |-> <<>>, newPaths |-> <<>>,
   gotLock |-> FALSE, latest |-> <<>>, merged |-> <<>>]

\* fetch and parse the page, read the bucket, diff
ScanMonth(r, parsed) ==
  /\ runs[r].pc = "idle"
  /\ \E scrapedSorted \in {uniqueSorted(parsed)},
        existingSorted \in {uniqueSorted(getMonthlyPaths(kv))} :
       \E newPaths \in {diffSorted(existingSorted, scrapedSorted)} :
         runs' = [runs EXCEPT ![r] =
                    [IdleScan EXCEPT !.pc = IF newPaths # <<>> THEN "lock-get" ELSE "done",
                                     !.scraped = scrapedSorted,
                                     !.existing = existingSorted,
                                     !.newPaths = newPaths]]
  /\ UNCHANGED <<deaths, calls, now, edgeVars>>

\* tryAcquireMonthLock, the get: a marker that is present refuses the lock
LockGet(r) ==
  /\ runs[r].pc = "lock-get"
  /\ runs' = [runs EXCEPT ![r].pc = IF kv.lock THEN "done" ELSE "lock-put"]
  /\ UNCHANGED <<deaths, calls, now, edgeVars>>

\* tryAcquireMonthLock, the put
LockPut(r) ==
  /\ runs[r].pc = "lock-put"
  /\ kv' = [kv EXCEPT !.lock = TRUE, !.owner = r]
  /\ runs' = [runs EXCEPT ![r].pc = "read", ![r].gotLock = TRUE]
  /\ UNCHANGED <<deaths, calls, now, hook, job, outbox, rate_limits>>

\* read the bucket again and merge the delta into it
ReadLatest(r) ==
  /\ runs[r].pc = "read"
  /\ \E latestExisting \in {uniqueSorted(getMonthlyPaths(kv))} :
       runs' = [runs EXCEPT ![r].pc = "put",
                            ![r].latest = latestExisting,
                            ![r].merged = mergeSortedUnique(latestExisting,
                                                            uniqueSorted(runs[r].newPaths))]
  /\ UNCHANGED <<deaths, calls, now, edgeVars>>

PutMonth(r) ==
  /\ runs[r].pc = "put"
  /\ kv' = putMonthlyPaths(kv, runs[r].merged)
  /\ runs' = [runs EXCEPT ![r].pc = "release"]
  /\ UNCHANGED <<deaths, calls, now, hook, job, outbox, rate_limits>>

\* finally: releaseMonthLock deletes the marker, whoever wrote it
ReleaseLock(r) ==
  /\ runs[r].pc = "release"
  /\ kv' = [kv EXCEPT !.lock = FALSE, !.owner = 0]
  /\ runs' = [runs EXCEPT ![r].pc = "done"]
  /\ UNCHANGED <<deaths, calls, now, hook, job, outbox, rate_limits>>

pShort == <<"A">>
pNew == <<"B", "_", "X">>

\* wiki_path lists the parser can return: unsorted, repeated, padded, empty
ScrapePool ==
  { <<>>, <<pB, pA>>, <<pA, pX, pA>>, <<<<" ">> \o pA, pShort>>,
    <<pX, pShort, pB>>, <<pShort, pA, pB, pX>>, <<pNew, pB, pX, pA>> }

\* buckets earlier runs can have left
BucketPool ==
  {JoinPaths(SortedFrom(set)) : set \in SUBSET {pShort, pA, pB, pX}}

MaxScanners == 2
Scanners == 1..MaxScanners

ScanStep(r) ==
  \/ \E parsed \in ScrapePool : ScanMonth(r, parsed)
  \/ LockGet(r)
  \/ LockPut(r)
  \/ ReadLatest(r)
  \/ PutMonth(r)
  \/ ReleaseLock(r)

\* the bucket as earlier runs left it
KvWith(bucket) ==
  [IdleKv EXCEPT !.bucket = bucket,
                 !.ever = SeqRange(getMonthlyPaths([bucket |-> bucket]))]

\* one invocation, every bucket and every page
InitDiff ==
  /\ deaths = <<>>
  /\ runs = [r \in Scanners |-> IdleScan]
  /\ calls = [c \in Calls |-> IdleCall]
  /\ now = 0
  /\ hook = IdleHook
  /\ job = IdleJob
  /\ outbox = IdleOutbox
  /\ rate_limits = <<>>
  /\ \E bucket \in BucketPool : kv = KvWith(bucket)

NextDiff == ScanStep(1)

SpecDiff == InitDiff /\ [][NextDiff]_vars

SortedUnique(seq) ==
  \A k \in 1..(Len(seq) - 1) : StrLess(seq[k], seq[k + 1])

Diffed(r) == runs[r].pc # "idle"

\* C22: for sorted, duplicate-free inputs diffSorted(existing, scraped) is
\* the sorted, duplicate-free list of exactly the scraped paths that are not
\* in existing, and against an empty existing list it is scraped itself
C22_DiffLaw ==
  \A r \in Scanners :
    Diffed(r) =>
      /\ SortedUnique(runs[r].existing) /\ SortedUnique(runs[r].scraped)
      /\ SeqRange(runs[r].newPaths) = SeqRange(runs[r].scraped) \ SeqRange(runs[r].existing)
      /\ SortedUnique(runs[r].newPaths)
      /\ runs[r].existing = <<>> => runs[r].newPaths = runs[r].scraped

C22_Witness ==
  \E r \in Scanners :
    /\ Diffed(r)
    /\ Len(runs[r].newPaths) = 2
    /\ Len(runs[r].scraped) = 4
    /\ Len(runs[r].existing) = 3
    /\ StrLess(runs[r].newPaths[1], runs[r].existing[3])

\* C23: for sorted, duplicate-free inputs, merging the delta into existing
\* gives the same list as merging everything scraped, and that list is the
\* sorted, duplicate-free union of the two
C23_MergeLaw ==
  \A r \in Scanners :
    Diffed(r) =>
      /\ mergeSortedUnique(runs[r].existing, runs[r].newPaths)
           = mergeSortedUnique(runs[r].existing, runs[r].scraped)
      /\ mergeSortedUnique(runs[r].existing, runs[r].scraped)
           = SortedFrom(SeqRange(runs[r].existing) \cup SeqRange(runs[r].scraped))
      /\ (runs[r].pc \in {"put", "release", "done"} /\ runs[r].gotLock
            /\ runs[r].latest = runs[r].existing)
           => runs[r].merged = mergeSortedUnique(runs[r].existing, runs[r].scraped)

C23_Witness ==
  \E r \in Scanners :
    /\ runs[r].pc = "done" /\ runs[r].gotLock
    /\ Len(runs[r].existing) = 2 /\ Len(runs[r].newPaths) = 1 /\ Len(runs[r].scraped) = 3
    /\ Len(getMonthlyPaths(kv)) = 3
    /\ StrLess(runs[r].newPaths[1], runs[r].existing[2])

\* pages of two scans that overlap in time
RacePool == { <<pB, pA>>, <<pX, pB>>, <<pShort>> }

\* concurrent invocations: a cron run and a manual run, or two manual runs
InitScan ==
  /\ deaths = <<>>
  /\ runs = [r \in Scanners |-> IdleScan]
  /\ calls = [c \in Calls |-> IdleCall]
  /\ now = 0
  /\ hook = IdleHook
  /\ job = IdleJob
  /\ outbox = IdleOutbox
  /\ rate_limits = <<>>
  /\ \E bucket \in {<<>>, pB} : kv = KvWith(bucket)

NextScan ==
  \E r \in Scanners :
    \/ \E parsed \in RacePool : ScanMonth(r, parsed)
    \/ LockGet(r)
    \/ LockPut(r)
    \/ ReadLatest(r)
    \/ PutMonth(r)
    \/ ReleaseLock(r)

SpecScan == InitScan /\ [][NextScan]_vars

\* C24: a month bucket only grows: every path once written to it is in
\* every later value of it, whatever the interleaving of the writers
C24_BucketNeverShrinks ==
  kv.ever \subseteq SeqRange(getMonthlyPaths(kv))

\* ---------------------------------------------------------------- insert chunking
\* placeholders of one VALUES tuple, and the highest positional parameter
\* D1 accepts in one statement
PLACEHOLDERS == 6
D1_PARAM_LIMIT == 100

\* one statement that binds every row
OneStatement(tuples) == IF tuples = <<>> THEN <<>> ELSE <<tuples>>

\* for (i = 0; i < tuples.length; i += CHUNK) tuples.slice(i, i + CHUNK)
Statements(tuples) ==
  [k \in 1..((Len(tuples) + CHUNK - 1) \div CHUNK) |->
     SubSeq(tuples, (k - 1) * CHUNK + 1, Min(k * CHUNK, Len(tuples)))]

\* chunk.flat().length
FlatBinds(chunk) == Len(chunk) * PLACEHOLDERS

RECURSIVE Concat(_)
Concat(seqs) == IF seqs = <<>> THEN <<>> ELSE Head(seqs) \o Concat(Tail(seqs))

\* env.DB.batch when statement failAt raises (0: none does): the
\* transaction is rolled back and batch() rejects
BatchOutcome(db, rows, failAt) ==
  IF failAt > 0 THEN [db |-> db, newOnes |-> <<>>, error |-> TRUE]
  ELSE insertBatchReturningNew(db, rows)

\* what the caller of runJob holds afterwards: the summary, or the 500 body
\* built from the exception
RunReply(out) ==
  IF out.error THEN [ok |-> FALSE, error |-> "D1_ERROR"]
  ELSE [ok |-> TRUE, inserted |-> Len(out.newOnes)]

InsertChunks(r, rows, failAt) ==
  /\ runs[r].pc = "idle"
  /\ \E statements \in {IF rows = <<>> THEN <<>> ELSE Statements(Tuples(rows))} :
       /\ failAt <= Len(statements)
       /\ \E out \in {BatchOutcome(deaths, rows, failAt)} :
            /\ deaths' = out.db
            /\ runs' = [runs EXCEPT ![r] =
                          [pc |-> "done", batch |-> rows, returned |-> out.newOnes,
                           error |-> out.error, statements |-> statements,
                           failAt |-> failAt, base |-> Len(deaths),
                           reply |-> RunReply(out)]]
  /\ UNCHANGED <<calls, now, edgeVars>>

\* batch sizes around the chunk boundaries, and where a batch starts among
\* the entries of the page
SizePool == {0, 1, CHUNK, CHUNK + 1, 2 * CHUNK + 1}
OffsetPool == {0, CHUNK \div 2}
MaxFailAt == 2

NextChunk ==
  \E r \in Runs, n \in SizePool, have \in OffsetPool, failAt \in 0..MaxFailAt :
    InsertChunks(r, Scanned(have, n), failAt)

SpecChunk == Init /\ [][NextChunk]_vars

\* C25: the rows of a batch are bound in consecutive statements of at most
\* floor(100 / 6) = 16 rows, so no statement binds more than 96 of the 100
\* parameters; every row is bound in exactly one statement and the rows
\* keep their order across the statements
C25_ParameterCeiling ==
  \A r \in Runs :
    runs[r].pc = "done" =>
      /\ CHUNK = D1_PARAM_LIMIT \div PLACEHOLDERS
      /\ \A k \in 1..Len(runs[r].statements) :
           /\ Len(runs[r].statements[k]) \in 1..CHUNK
           /\ FlatBinds(runs[r].statements[k]) <= 96
           /\ FlatBinds(runs[r].statements[k]) <= D1_PARAM_LIMIT
      /\ Concat(runs[r].statements) = Tuples(runs[r].batch)
      /\ (~runs[r].error /\ runs[r].base = 0) =>
           SubSeq(StoredPaths(deaths), 1, Len(runs[r].batch))
             = [k \in 1..Len(runs[r].batch) |-> Trim(runs[r].batch[k].wiki_path)]

C25_Witness ==
  \E r \in Runs :
    /\ runs[r].pc = "done" /\ ~runs[r].error
    /\ Len(runs[r].batch) = 2 * CHUNK + 1
    /\ Len(runs[r].statements) = 3
    /\ Len(runs[r].statements[3]) = 1
    /\ Len(runs[r].returned) = 2 * CHUNK + 1

\* C26: when one chunk of a multi-chunk batch fails the rows of the other
\* chunks are not lost: the caller holds the number of rows that were
\* inserted, and the table holds exactly those rows of the batch
C26_PartialFailureSurfaced ==
  [][\A r \in Runs :
       (/\ runs[r].pc = "idle" /\ runs'[r].pc = "done"
        /\ runs'[r].failAt > 0 /\ Len(runs'[r].statements) > 1) =>
         /\ "inserted" \in DOMAIN runs'[r].reply
         /\ runs'[r].reply.inserted = Len(deaths') - Len(deaths)]_vars

\* ---------------------------------------------------------------- webhook answers
\* payloads besides those of HookBodyPool: a response event without data.id,
\* an event of another family, a payload without a type, a response event
\* the handler does not act on
EventBodyPool ==
  HookBodyPool \cup { <<"p", "4">>, <<"p", "5">>, <<"p", "6">>, <<"p", "7">> }

\* String(payload?.type || '').trim() and String(payload?.data?.id || '').trim()
EventOf(body) ==
  IF body \in { <<"p", "1">>, <<"p", "2">> }
  THEN [valid |-> TRUE, type |-> "response.completed", family |-> "response", id |-> "r1"]
  ELSE IF body = <<"p", "3">>
  THEN [valid |-> TRUE, type |-> "response.failed", family |-> "response", id |-> "r1"]
  ELSE IF body = <<"p", "4">>
  THEN [valid |-> TRUE, type |-> "response.completed", family |-> "response", id |-> ""]
  ELSE IF body = <<"p", "5">>
  THEN [valid |-> TRUE, type |-> "batch.completed", family |-> "batch", id |-> "b1"]
  ELSE IF body = <<"p", "6">>
  THEN [valid |-> TRUE, type |-> "", family |-> "", id |-> ""]
  ELSE IF body = <<"p", "7">>
  THEN [valid |-> TRUE, type |-> "response.created", family |-> "response", id |-> "r1"]
  ELSE [valid |-> FALSE, type |-> "", family |-> "", id |-> ""]

\* what the Replicate handler reads from the same bodies: the four payloads
\* above carry no succeeded status
PayloadOf(body) ==
  IF body \in { <<"p", "4">>, <<"p", "5">>, <<"p", "6">>, <<"p", "7">> }
  THEN [valid |-> TRUE, status |-> "", output |-> Verdict("empty", <<>>, <<>>),
        candidates |-> <<>>]
  ELSE JsonParse(body)

handledEvents == {"response.completed", "response.failed", "response.cancelled"}

Answer(status, json, db) == [status |-> status, json |-> json, db |-> db]

\* a handler that answers 200 with a summary whatever it finds
AlwaysOk(db, body, retrieve, t) == Answer(200, TRUE, db)

\* openaiWebhook after verification; retrieve is the outcome of
\* retrieveOpenAIResponse ("ok" or "throws")
openaiWebhook(db, body, retrieve, t) ==
  LET event == EventOf(body)
      response == JsonParse(body)
  IN IF ~event.valid THEN Answer(400, FALSE, db)
     ELSE IF event.type = "" THEN Answer(200, TRUE, db)
     ELSE IF event.family # "response" THEN Answer(200, TRUE, db)
     ELSE IF event.id = "" THEN Answer(400, FALSE, db)
     ELSE IF event.type \notin handledEvents THEN Answer(200, TRUE, db)
     ELSE IF retrieve = "throws" THEN Answer(500, FALSE, db)
     ELSE IF event.type # "response.completed"
     THEN Answer(200, TRUE, UnparseableWrite(db, TrimAll(response.candidates), t))
     ELSE Answer(200, TRUE,
                 applyLlmOutput(db, "llm-output", response.output, response.candidates, t))

\* replicateCallback after verification
replicateCallback(db, body, t) ==
  LET payload == PayloadOf(body)
  IN IF ~payload.valid THEN Answer(400, FALSE, db)
     ELSE IF payload.status # "succeeded" THEN Answer(200, TRUE, db)
     ELSE Answer(200, TRUE,
                 applyLlmOutput(db, "replicate-callback", payload.output,
                                payload.candidates, t))

\* the rest of the handler of a verified request, up to its response
Respond(retrieve) ==
  /\ hook.state = "verified"
  /\ \E answer \in {IF hook.provider = "openai"
                    THEN openaiWebhook(deaths, hook.body, retrieve, now)
                    ELSE replicateCallback(deaths, hook.body, now)} :
       /\ deaths' = answer.db
       /\ hook' = [json |-> answer.json, retrieve |-> retrieve]
                    @@ [hook EXCEPT !.state = "answered", !.status = answer.status]
  /\ UNCHANGED <<runs, calls, now, job, outbox, rate_limits, kv>>

NextRespond ==
  \/ InsertBatch(1, ScanBatch)
  \/ /\ hook.state = "none"
     /\ \E provider \in Providers, secret \in {<<>>, <<"w", "_", "a", "b", "c", "d">>},
           authorization \in {<<>>, <<"Bearer", " ", "s", "1">>},
           form \in {"valid", "nots", "forged"}, body \in EventBodyPool :
          Receive(provider, secret, ManualSecret, authorization,
                  HookRequest(form, <<"w", "_", "a", "b", "c", "d">>, body, body))
  \/ \E retrieve \in {"ok", "throws"} : Respond(retrieve)

SpecRespond == InitWebhook /\ [][NextRespond]_vars

\* the request passed verification (or needed none)
PassedGate(h) ==
  WebhookGate(h.provider, h.secret, h.override, h.id, h.ts, h.sig, h.body, h.at).ok

\* C27: a webhook request that passes verification and whose body parses
\* as JSON is answered 200 with a JSON summary; the only other answers are
\* 400 or 403 to a request that fails verification and 400 to a body that
\* does not parse
C27_WebhookResponseCodes ==
  hook.state = "answered" =>
    /\ (PassedGate(hook) /\ EventOf(hook.body).valid) => (hook.status = 200 /\ hook.json)
    /\ hook.status # 200 =>
         \/ ~PassedGate(hook) /\ hook.status \in {400, 403}
         \/ ~EventOf(hook.body).valid /\ hook.status = 400

\* ---------------------------------------------------------------- failures while reconciling
\* The iteration of the selected loop for the current item raises:
\* notifyTelegram rethrows what fetchWithRetry throws after its last attempt
\* ("notify"), or updateDeathLLM rejects ("store").  Neither the loop nor
\* applyLlmOutput has a try/catch, so the call ends there.
ApproveThrows(c, where) ==
  /\ calls[c].pc = "approve"
  /\ LET call == calls[c]
         wp == ItemPath(call.route, call.selected[call.idx], call.cands)
     IN /\ where = "store" => wp # <<>>
        /\ calls' = [calls EXCEPT ![c].pc = "failed",
                                  ![c].notified = IF where = "store" THEN @ + 1 ELSE @,
                                  ![c].log = IF where = "store"
                                             THEN Append(@, LogEntry("notify", wp, deaths))
                                             ELSE @]
  /\ UNCHANGED <<deaths, runs, now, edgeVars>>

\* verdicts over the scanned batch: one approved and one rejected, two
\* approved, a nameless item before a named one, one approved and one
\* rejected in the flat form
IsolationPool ==
  { Verdict("object", <<iA>>, <<rB>>),
    Verdict("object", <<iA, iB>>, <<>>),
    Verdict("object", <<iBnoname, iA>>, <<rB>>),
    Verdict("object", <<iNoPath, iB>>, <<rA>>) }

NextIsolate ==
  \/ \E batch \in BatchPool \cup {ScanBatch} : InsertBatch(1, batch)
  \/ /\ deaths # <<>>
     /\ \E v \in IsolationPool, cands \in {<<>>, StoredPaths(deaths)} :
          StartReconcile("webhook", "llm-output", cands, <<>>, v)
  \/ Approve("webhook")
  \/ \E where \in {"notify", "store"} : ApproveThrows("webhook", where)
  \/ Reject("webhook")

SpecIsolate == Init /\ [][NextIsolate]_vars

\* the call has returned or has been ended by an exception
Ended(c) == calls[c].pc \in {"done", "failed"}

\* the selected items of call c other than the one whose handling raised
OtherSelected(c) ==
  {i \in 1..Len(calls[c].selected) :
     calls[c].selected[i].name # "" /\ ~(calls[c].pc = "failed" /\ i = calls[c].idx)}

\* C28: when handling one item of a verdict fails, the other named selected
\* items of the verdict are still approved and notified, and its rejected
\* items are still marked rejected
C28_FailureIsolation ==
  \A c \in Calls :
    (Ended(c) /\ calls[c].kind \in {"array", "object"}) =>
      /\ \A i \in OtherSelected(c) :
           \E wp \in {ItemPath(calls[c].route, calls[c].selected[i], calls[c].cands)} :
             /\ \E k \in 1..Len(calls[c].log) :
                  calls[c].log[k].op = "notify" /\ calls[c].log[k].path = wp
             /\ HasPath(deaths, wp) => ResultOf(deaths, wp) = "yes"
      /\ \A k \in 1..Len(calls[c].rejected) :
           \E wp \in {calls[c].rejected[k].wiki_path} :
             (HasPath(deaths, wp)
                /\ wp \notin SelectedSet(calls[c].route, calls[c].selected, calls[c].cands))
               => ResultOf(deaths, wp) = "no"

\* ---------------------------------------------------------------- failing runs
\* for (const p of newPaths) { const row = map[p]; if (row) push(row) }:
\* the map is keyed by the parsed wiki_path as it is, first entry wins
RECURSIVE NewEntries(_, _)
NewEntries(parsed, newPaths) ==
  IF newPaths = <<>> THEN <<>>
  ELSE LET hits == {k \in 1..Len(parsed) : parsed[k].wiki_path = Head(newPaths)}
       IN (IF hits = {} THEN <<>>
           ELSE <<parsed[CHOOSE k \in hits : \A other \in hits : k <= other]>>)
            \o NewEntries(parsed, Tail(newPaths))

\* what manualRun answers for the invocation: the summary, or 500 from
\* its catch block
RunAnswer(j) == IF j.pc = "failed" THEN 500 ELSE IF j.pc = "done" THEN 200 ELSE 0

\* runJob from the page fetch to the insert, for one target month and with
\* no other invocation at work.  fault: "fetch" (fetchWithRetry throws or
\* the page is not ok), "insert" (env.DB.batch rejects), "none"
RunJobFrom(setup, parsed, fault) ==
  /\ job.pc \in {"idle", "done", "failed"}
  /\ setup.kind = "runJob"
  /\ \E newPaths \in {IF fault = "fetch" THEN <<>>
                      ELSE diffSorted(uniqueSorted(getMonthlyPaths(kv)),
                                      uniqueSorted(PathsOf(parsed)))} :
     \E out \in {BatchOutcome(deaths, NewEntries(parsed, newPaths),
                              IF fault = "insert" THEN 1 ELSE 0)} :
       /\ kv' = IF newPaths # <<>> /\ ~kv.lock
                THEN putMonthlyPaths(kv, mergeSortedUnique(uniqueSorted(getMonthlyPaths(kv)),
                                                           uniqueSorted(newPaths)))
                ELSE kv
       /\ deaths' = out.db
       /\ job' = [fault |-> fault] @@
                 (IF fault = "fetch" \/ out.error
                  THEN [EnterPending(setup, job.seq + 1, <<>>, deaths) EXCEPT !.pc = "failed"]
                  ELSE IF out.newOnes = <<>>
                  THEN EnterPending(setup, job.seq + 1, <<>>, out.db)
                  ELSE [EnterPending(setup, job.seq + 1, PathsOf(out.newOnes), deaths)
                          EXCEPT !.pc = "new", !.rows = PathsOf(out.newOnes)])
  /\ outbox' = [outbox EXCEPT !.count = <<>>, !.sends = 0]
  /\ UNCHANGED <<runs, calls, now, hook, rate_limits>>

\* setups of a run whose provider call fails or does not
FailSetups(kind) ==
  {x \in JobSetups(kind) :
     /\ Distinct(x) /\ x.limitOpt = 0 /\ ~x.drainOpt
     /\ x.behaviour \in {"decide", "omit"}
     /\ x.replies \in {<<"ok">>, <<"5xx", "5xx">>, <<"4xx">>}}

\* pages the parser returns on successive scans
PagePool == {ScanBatch, SubSeq(ScanBatch, 1, 1)}

NextFail ==
  \/ /\ job.seq < MaxJobs
     /\ \E setup \in FailSetups("runJob"), parsed \in PagePool,
           fault \in {"none", "fetch", "insert"} : RunJobFrom(setup, parsed, fault)
  \/ /\ job.seq < MaxJobs
     /\ \E setup \in FailSetups("runPending") : StartPending(setup)
  \/ DispatchNew
  \/ FetchPending
  \/ DispatchPending

SpecFail == InitJob /\ [][NextFail]_vars

\* the step ends a runJob invocation with an exception
RunFails(j, k) ==
  /\ k.pc = "failed" /\ k.setup.kind = "runJob"
  /\ j.pc # "failed" \/ j.seq # k.seq

\* C29: a runJob invocation that fails at the page fetch, at the batch
\* insert or at a dispatch ends with the failure handed to its caller; the
\* failing step changes no row, every row the invocation inserted is
\* stored and is pending unless a dispatch that succeeded decided it, and a
\* later drain that returns has dispatched every row that was pending
C29_RunFailureKeepsRows ==
  [][ /\ ("fault" \in DOMAIN job' /\ job'.seq # job.seq /\ job'.fault # "none")
           => job'.pc = "failed"
      /\ outbox'.failed # outbox.failed => job'.pc = "failed"
      /\ RunFails(job, job') =>
           /\ RunAnswer(job') = 500
           /\ deaths' = deaths
           /\ \A p \in SeqRange(job'.inserted) :
                /\ HasPath(deaths', p)
                /\ (CountOf(outbox', p) = 0 \/ p \in outbox'.failed)
                     => ResultOf(deaths', p) = "pending"
      /\ DrainReturned(job') => Redispatched(job', outbox', deaths', job'.pendingAtStart) ]_vars

\* a run failed at its dispatch, and a later drain sent the rows it had
\* inserted to the provider
C29_Witness ==
  /\ DrainReturned(job)
  /\ \E p \in job.failedAtStart \cap job.pendingAtStart :
       CountOf(outbox, p) >= 1 /\ HasPath(deaths, p)

\* ---------------------------------------------------------------- correlating callbacks
\* an article whose title holds a comma
pComma == <<"K", ",", "_", "J">>

\* the table after a scan stored two articles
CorrelateBatch == <<EntryOf(pA), EntryOf(pComma)>>

\* requests in flight at a time
MaxFlight == 1

\* evaluateDeaths hands a batch to the provider for an asynchronous answer
Dispatch(provider, family, chunk, forcedPaths) ==
  /\ Cardinality(outbox.flight) < MaxFlight
  /\ outbox' = [outbox EXCEPT !.flight = @ \cup
                  {[provider |-> provider, family |-> family, chunk |-> chunk,
                    forcedPaths |-> forcedPaths]}]
  /\ UNCHANGED <<deaths, runs, calls, now, hook, job, rate_limits, kv>>

\* the provider's callback for a request in flight: the handler recovers
\* the candidates and reconciles the output against them
Deliver(d, behaviour) ==
  /\ d \in outbox.flight
  /\ \E found \in {Correlated(d.provider, d.family, d.chunk, d.forcedPaths)} :
       /\ deaths' = applyLlmOutput(deaths,
                                   IF d.provider = "replicate" THEN "replicate-callback"
                                   ELSE "llm-output",
                                   OutputOf(behaviour, d.chunk), found.candidates, now)
       /\ hook' = [state |-> "answered", status |-> 200, provider |-> d.provider,
                   family |-> d.family, batch |-> d.chunk, forced |-> d.forcedPaths,
                   candidates |-> found.candidates, forcedPaths |-> found.forcedPaths]
  /\ outbox' = [outbox EXCEPT !.flight = @ \ {d}]
  /\ UNCHANGED <<runs, calls, now, job, rate_limits, kv>>

InitCorrelate ==
  /\ deaths = insertBatchReturningNew(<<>>, CorrelateBatch).db
  /\ runs = [r \in Runs |-> IdleRun]
  /\ calls = [c \in Calls |-> IdleCall]
  /\ now = Epoch
  /\ hook = IdleHook
  /\ job = IdleJob
  /\ outbox = IdleOutbox
  /\ rate_limits = <<>>
  /\ kv = IdleKv

NextCorrelate ==
  \/ \E provider \in Providers, family \in ModelFamilies,
        chunk \in SubLists(StoredPaths(deaths)) \ {<<>>} :
       \E forcedPaths \in {<<>>, chunk} :
         /\ provider = "openai" => family = "openai/"
         /\ Dispatch(provider, family, chunk, forcedPaths)
  \/ \E d \in outbox.flight, behaviour \in {"decide", "garbage"} : Deliver(d, behaviour)

SpecCorrelate == InitCorrelate /\ [][NextCorrelate]_vars

\* C30: the callback of an asynchronous dispatch has exactly the candidate
\* ids of the dispatched batch and the forced list of the dispatch, for
\* every provider, every model family and every batch of stored ids
C30_CallbackCorrelation ==
  hook.state = "answered" =>
    /\ hook.candidates = TrimAll(hook.batch)
    /\ hook.forcedPaths = TrimAll(hook.forced)

\* ---------------------------------------------------------------- the manual update path
\* const LLM_RESULT_OPTIONS of routes/llm-debug.ts
LLM_RESULT_OPTIONS == {"pending", "yes", "no", "skipped", "error"}

\* String.prototype.toLowerCase on the words of a form value
ToLowerCase(s) ==
  [k \in 1..Len(s) |-> IF s[k] = "YES" THEN "yes" ELSE IF s[k] = "No" THEN "no" ELSE s[k]]

\* normalizeLlmResult(value): the trimmed, lower-cased value when it is one
\* of the options, 'pending' otherwise
normalizeLlmResult(value) ==
  LET raw == ToLowerCase(Trim(value))
  IN IF Len(raw) = 1 /\ raw[1] \in LLM_RESULT_OPTIONS THEN raw[1] ELSE "pending"

\* normalizeOptionalText(value): null for a missing or blank field
normalizeOptionalText(value) == IF value = "" \/ value = NULL THEN NULL ELSE value

\* handlePost, action=update: the row with the given id gets the form's
\* attributes and status; llm_date_time is CURRENT_TIMESTAMP when the
\* status changes to 'yes', NULL when it changes to anything else, and is
\* kept when the status does not change.  An unknown id is answered 404
UpdateRow(db, id, form, t) ==
  IF id \notin 1..Len(db) THEN db
  ELSE LET row == db[id]
           nextStatus == normalizeLlmResult(IF form.status = <<>> THEN <<row.llm_result>>
                                            ELSE form.status)
           statusChanged == nextStatus # row.llm_result
       IN [db EXCEPT ![id] =
             [row EXCEPT !.description = normalizeOptionalText(form.description),
                         !.cause = normalizeOptionalText(form.cause),
                         !.llm_result = nextStatus,
                         !.llm_rejection_reason = IF nextStatus = "yes" THEN NULL ELSE @,
                         !.llm_date_time = IF ~statusChanged THEN @
                                           ELSE IF nextStatus = "yes" THEN t ELSE NoTime,
                         !.first = IF statusChanged THEN StampFirst(row, nextStatus) ELSE @]]

\* forms an operator can post for a row: the page fills the form with the
\* row's attributes, and the operator picks a status and may edit the
\* description
StatusPool ==
  {<<>>, <<" ", "YES">>, <<"No">>, <<"error">>, <<"skipped">>, <<"pending">>, <<"bogus">>}

FormsFor(db, id) ==
  { [status |-> s, description |-> d,
     cause |-> IF id \in 1..Len(db) THEN db[id].cause ELSE NULL] :
      s \in StatusPool,
      d \in {IF id \in 1..Len(db) THEN db[id].description ELSE NULL, ""} }

\* ids an operator can name: the stored rows and one that does not exist
IdsOf(db) == 1..(Len(db) + 1)

\* the operator posts action=update for one row; hook keeps the request
ManualUpdate(id, form) ==
  /\ deaths' = UpdateRow(deaths, id, form, now)
  /\ hook' = [state |-> "updated", id |-> id, status |-> form.status,
              before |-> IF id \in 1..Len(deaths) THEN deaths[id].llm_result ELSE "none"]
  /\ UNCHANGED <<runs, calls, now, job, outbox, rate_limits, kv>>

\* one reconciliation call, from start to return; hook keeps the call
ReconcileAll(route, v, cands) ==
  /\ deaths' = applyLlmOutput(deaths, route, v, cands, now)
  /\ hook' = [state |-> "reconciled", id |-> 0, status |-> <<>>, before |-> "none"]
  /\ UNCHANGED <<runs, calls, now, job, outbox, rate_limits, kv>>

\* outputs the reconciler is handed between manual updates
StampVerdicts ==
  { Verdict("garbage", <<>>, <<>>),
    Verdict("object", <<iA>>, <<rB>>),
    Verdict("object", <<iB>>, <<rA>>) }

\* the scan that stored the row the operator edits
StampBatch == <<ScanBatch[1]>>

NextStampAuto ==
  \/ Tick
  \/ InsertBatch(1, StampBatch)
  \/ \E v \in StampVerdicts, cands \in SubLists(StoredPaths(deaths)) :
       ReconcileAll("llm-output", v, cands)

\* the pipeline without the manual path
SpecStampAuto == Init /\ [][NextStampAuto]_vars

NextStamp ==
  \/ NextStampAuto
  \/ \E id \in IdsOf(deaths) : \E form \in FormsFor(deaths, id) : ManualUpdate(id, form)

SpecStamp == Init /\ [][NextStamp]_vars

\* C31: in every reachable state a row's llm_date_time is null exactly
\* when its llm_result is 'pending', whether the row was written by the
\* batch insert, by the reconciler or by the manual update
C31_VerdictTimestamp ==
  \A i \in 1..Len(deaths) :
    (deaths[i].llm_date_time = NoTime) <=> (deaths[i].llm_result = "pending")

\* ---------------------------------------------------------------- attributes on approval
\* a text column that holds a value
NonEmptyText(x) == x # NULL /\ x # ""

\* the row was written by an approval in this step
ApprovedNow(i) == deaths'[i] # deaths[i] /\ deaths'[i].llm_result = "yes"

\* C32: approving a row never replaces a stored non-empty description or
\* cause by an empty or null value, and an attribute that changes on
\* approval changes to a non-empty value
C32_ApprovalNeverClears ==
  [][\A i \in 1..Len(deaths) :
       ApprovedNow(i) =>
         /\ NonEmptyText(deaths[i].description) => NonEmptyText(deaths'[i].description)
         /\ NonEmptyText(deaths[i].cause) => NonEmptyText(deaths'[i].cause)
         /\ deaths'[i].description # deaths[i].description
              => NonEmptyText(deaths'[i].description)
         /\ deaths'[i].cause # deaths[i].cause => NonEmptyText(deaths'[i].cause)]_vars

\* ---------------------------------------------------------------- scans without the lock
\* pages concurrent invocations can parse: the same entries, overlapping
\* entries, an href that ends in a blank
TolPages ==
  { ScanBatch,
    <<ScanBatch[2], EntryOf(pX)>>,
    <<[name |-> "Ann2", wiki_path |-> <<" ">> \o pA, description |-> "d0", cause |-> NULL],
      EntryOf(pX)>> }

\* a run that drops its new entries when it was refused the lock
EntriesIfLocked(run, parsed) ==
  IF run.gotLock THEN NewEntries(parsed, run.newPaths) ELSE <<>>

\* allNewEntries of runJob: the parsed entries of the new paths, collected
\* before the lock is tried and whatever its outcome
AllNewEntries(run, parsed) == NewEntries(parsed, run.newPaths)

\* runJob after its month loop: insertBatchReturningNew(env, allNewEntries),
\* one D1 transaction
InsertScanned(r) ==
  /\ runs[r].pc = "done"
  /\ \E parsed \in TolPages :
       /\ uniqueSorted(PathsOf(parsed)) = runs[r].scraped
       /\ \E res \in {insertBatchReturningNew(deaths, AllNewEntries(runs[r], parsed))} :
            /\ deaths' = res.db
            /\ runs' = [runs EXCEPT ![r] =
                          [handed |-> PathsOf(NewEntries(parsed, runs[r].newPaths)),
                           returned |-> PathsOf(res.newOnes)]
                            @@ [runs[r] EXCEPT !.pc = "inserted"]]
  /\ UNCHANGED <<calls, now, edgeVars>>

NextTolerate ==
  \E r \in Scanners :
    \/ \E parsed \in TolPages : ScanMonth(r, PathsOf(parsed))
    \/ LockGet(r)
    \/ LockPut(r)
    \/ ReadLatest(r)
    \/ PutMonth(r)
    \/ ReleaseLock(r)
    \/ InsertScanned(r)

SpecTolerate == InitScan /\ [][NextTolerate]_vars

\* the run found new paths and was refused the lock
Refused(run) == run.newPaths # <<>> /\ ~run.gotLock

\* no two rows with the same wiki_path
NoDuplicateRows(db) ==
  \A i \in 1..Len(db), k \in 1..Len(db) : db[i].wiki_path = db[k].wiki_path => i = k

\* C33: a run that was refused the month lock never writes the bucket,
\* still inserts the entries it collected for its new paths, and the table
\* never holds two rows of one wiki_path, whatever other runs insert
C33_LockAbsenceTolerated ==
  [][ /\ \A r \in Scanners :
           (runs'[r] # runs[r] /\ kv'.bucket # kv.bucket) => runs[r].gotLock
      /\ \A r \in Scanners :
           (runs'[r].pc = "inserted" /\ Refused(runs'[r])) =>
              \A p \in SeqRange(runs'[r].handed) : HasPath(deaths', p)
      /\ NoDuplicateRows(deaths') ]_vars

\* two runs found the same new path, one of them was refused the lock,
\* both inserted, and the refused run's insert was ignored for that path
C33_Witness ==
  \E r \in Scanners, o \in Scanners :
    /\ r # o
    /\ runs[r].pc = "inserted" /\ runs[o].pc = "inserted"
    /\ Refused(runs[r]) /\ runs[o].gotLock
    /\ \E p \in SeqRange(runs[r].handed) \cap SeqRange(runs[o].handed) :
         p \notin SeqRange(runs[r].returned) /\ HasPath(deaths, p)

\* ---------------------------------------------------------------- the retry loop
\* outcomes of one fetch: a response that is ok, a 4xx or a 5xx response,
\* a network error, an abort by the timeout
FetchReplies == {"ok", "4xx", "5xx", "neterr", "timeout"}

\* a loop that retries every response that is not ok
RetryNotOk(reply) == reply # "ok"

\* the attempt ends in the catch block: fetch rejected (network error,
\* abort) or the response was a 5xx
ShouldRetry(reply) == reply \in {"5xx", "neterr", "timeout"}

MaxRetries == 3

\* values of opts.retries: the default 0, the providers' 1, larger
\* configured ones, and a negative one
RetriesPool == (0 - 1)..MaxRetries

\* fetchWithRetry is called: attempt = 0, and the loop is entered when
\* attempt <= retries
FetchCall(retries) ==
  /\ job.pc = "idle"
  /\ job' = [pc |-> IF 0 <= retries THEN "attempt" ELSE "threw", seq |-> 0,
             retries |-> retries, attempt |-> 0, log |-> <<>>]
  /\ UNCHANGED <<deaths, runs, calls, now, hook, outbox, rate_limits, kv>>

\* one pass of the loop body: the fetch, then return, break or back off
FetchTry(reply) ==
  /\ job.pc = "attempt"
  /\ job' = [job EXCEPT !.log = Append(@, reply),
                        !.pc = IF ~ShouldRetry(reply) THEN "returned"
                               ELSE IF job.attempt = job.retries THEN "threw"
                               ELSE "backoff"]
  /\ outbox' = [outbox EXCEPT !.sends = @ + 1]
  /\ UNCHANGED <<deaths, runs, calls, now, hook, rate_limits, kv>>

\* the back-off timer fires: attempt++, and the loop condition is tested
Backoff ==
  /\ job.pc = "backoff"
  /\ job' = [job EXCEPT !.attempt = @ + 1,
                        !.pc = IF job.attempt + 1 <= job.retries THEN "attempt" ELSE "threw"]
  /\ UNCHANGED <<deaths, runs, calls, now, hook, outbox, rate_limits, kv>>

NextFetch ==
  \/ \E retries \in RetriesPool : FetchCall(retries)
  \/ \E reply \in FetchReplies : FetchTry(reply)
  \/ Backoff

SpecFetch == Init /\ [][NextFetch]_vars

\* the fetch settles and the timer fires
SpecFetchFair == SpecFetch /\ WF_vars(NextFetch)

FetchEnded == job.pc \in {"returned", "threw"}

\* what the call has done so far is within its bounds
FetchBounded ==
  job.pc # "idle" =>
    /\ outbox.sends = Len(job.log)
    /\ Len(job.log) <= IF job.retries < 0 THEN 0 ELSE job.retries + 1
    /\ \A k \in 1..(Len(job.log) - 1) : job.log[k] \in {"5xx", "neterr", "timeout"}
    /\ job.pc = "returned" =>
         /\ job.log[Len(job.log)] \in {"ok", "4xx"}
         /\ fetchWithRetry(job.retries, job.log).sends = Len(job.log)
         /\ fetchWithRetry(job.retries, job.log).ok = (job.log[Len(job.log)] = "ok")
    /\ (job.pc = "threw" /\ job.retries >= 0) =>
         /\ Len(job.log) = job.retries + 1
         /\ job.log[Len(job.log)] \in {"5xx", "neterr", "timeout"}
         /\ ~fetchWithRetry(job.retries, job.log).ok

\* C34: fetchWithRetry ends after at most retries + 1 requests; a request
\* is followed by another one only when it ended in a network error, a
\* timeout or a 5xx response, and a 4xx response is returned at once
C34_BoundedRetry ==
  /\ []FetchBounded
  /\ (job.pc # "idle") ~> FetchEnded

\* every attempt failed with a server or network error: the call threw
\* after retries + 1 requests
C34_Witness ==
  /\ job.pc = "threw"
  /\ job.retries = MaxRetries
  /\ outbox.sends = MaxRetries + 1

\* ---------------------------------------------------------------- drain volume
\* an explicit limit that is no multiple of a batch size
OddLimit == 45

\* invocations with the default limit, an odd one and one above FETCH_MAX;
\* runJob hands its pendingLimit to runPending
VolumeSetups(kind) ==
  { JobSetup(kind, provider, background, behaviour, 0, <<"ok">>, limitOpt, drainOpt) :
      provider \in Providers, background \in BOOLEAN, behaviour \in {"decide", "omit"},
      limitOpt \in {0, OddLimit, BigLimit}, drainOpt \in BOOLEAN }

\* one representative per distinguishable setup
DistinctVolume(setup) ==
  /\ setup.provider = "replicate" => (setup.background /\ ~setup.drainOpt)
  /\ setup.background => setup.behaviour = "decide"
  /\ setup.kind = "runJob" => ~setup.drainOpt

NextVolume ==
  \/ /\ job.pc = "idle"
     /\ \E setup \in {x \in VolumeSetups("runJob") : DistinctVolume(x)}, n \in ScanPool :
          StartRunJob(setup, Scanned(Len(deaths), n))
  \/ /\ job.pc = "idle"
     /\ \E setup \in {x \in VolumeSetups("runPending") : DistinctVolume(x)} :
          StartPending(setup)
  \/ DispatchNew
  \/ FetchPending
  \/ DispatchPending

SpecVolume == InitDrain /\ [][NextVolume]_vars

\* the limit L of the call: opts.limit, or 120 when none is given; drain-all
\* mode has none
FiniteLimit(setup) == ~(setup.provider = "openai" /\ setup.drainOpt /\ setup.limitOpt = 0)

LimitOf(setup) == IF setup.limitOpt > 0 THEN setup.limitOpt ELSE 120

\* C35: a runPending call with a finite limit L dispatches at most L
\* records in total, at most min(L, 400) for Replicate, and each batch
\* holds at most 20 records for OpenAI and at most 30 for Replicate
C35_DrainVolumeLimits ==
  [][ (job'.pc # "idle" /\ FiniteLimit(job'.setup)) =>
        /\ job'.queued <= LimitOf(job'.setup)
        /\ job'.setup.provider = "replicate" => job'.queued <= Min(LimitOf(job'.setup), 400)
        /\ job.pc = "dispatch" =>
             job'.queued - job.queued <= IF job.setup.provider = "openai" THEN 20 ELSE 30
        /\ job'.setup.kind = "runPending" =>
             \A f \in outbox'.flight : Len(f[2]) <= IF f[1] = "openai" THEN 20 ELSE 30 ]_vars

\* a call with the odd limit stopped at it, in the middle of a batch, with
\* pending rows left
C35_Witness ==
  /\ job.pc = "done"
  /\ job.setup.kind = "runPending"
  /\ job.setup.limitOpt = OddLimit
  /\ job.queued = OddLimit
  /\ \E f \in outbox.flight : Len(f[2]) = OddLimit % 20 \/ Len(f[2]) = OddLimit % 30
  /\ Len(deaths) > OddLimit

\* ---------------------------------------------------------------- cache and store
\* C36: when a runJob invocation has ended, normally or with an exception,
\* every id it wrote to the month bucket has a row in the deaths table
C36_BucketIdsStored ==
  job.pc # "idle" => \A p \in kv.ever : HasPath(deaths, p)

\* ---------------------------------------------------------------- concurrent rate checks
\* requests that reach checkRateLimits at the same time
MaxCallers == 3
Callers == 1..MaxCallers

\* the single configured window of the concurrent requests
RaceWindow == 60

IdleCaller == [pc |-> "idle", own |-> 0, count |-> 0, allowed |-> FALSE]

\* incrementAndGet, first statement: the upsert.  own is history: the
\* count this increment produced
Upsert(c) ==
  /\ runs[c].pc = "idle"
  /\ \E got \in {incrementAndGet(rate_limits, makeKey("run", "ip1", RaceWindow),
                                 RaceWindow, now)} :
       /\ rate_limits' = got.table
       /\ runs' = [runs EXCEPT ![c].pc = "upserted", ![c].own = got.count]
  /\ UNCHANGED <<deaths, calls, now, hook, job, outbox, kv>>

\* incrementAndGet, second statement: the SELECT of the row, and the
\* decision of checkRateLimits on the count it returns
ReadBack(c) ==
  /\ runs[c].pc = "upserted"
  /\ \E count \in {rate_limits[makeKey("run", "ip1", RaceWindow)].count} :
       runs' = [runs EXCEPT ![c].pc = "done", ![c].count = count,
                            ![c].allowed = ~(count > hook.limit)]
  /\ UNCHANGED <<deaths, calls, now, hook, job, outbox, rate_limits, kv>>

InitRace ==
  /\ deaths = <<>>
  /\ runs = [c \in Callers |-> IdleCaller]
  /\ calls = [c \in Calls |-> IdleCall]
  /\ now = Epoch
  /\ hook \in {[state |-> "none", limit |-> n] : n \in 1..MaxCallers}
  /\ job = IdleJob
  /\ outbox = IdleOutbox
  /\ rate_limits = <<>>
  /\ kv = IdleKv

NextRace == \E c \in Callers : Upsert(c) \/ ReadBack(c)

SpecRace == InitRace /\ [][NextRace]_vars

\* the calls that have returned
Returned == {c \in Callers : runs[c].pc = "done"}

\* C37: of k concurrent checkRateLimits calls on one key inside one
\* window, with limit N and a fresh counter, exactly min(k, N) are
\* allowed, and each call decides on the count its own increment produced
C37_ConcurrentDecisions ==
  /\ \A c \in Returned : runs[c].count = runs[c].own
  /\ (\A c \in Callers : runs[c].pc # "upserted") =>
       Cardinality({c \in Returned : runs[c].allowed}) = Min(Cardinality(Returned), hook.limit)

\* ---------------------------------------------------------------- releasing the lock
\* the marker's expirationTtl of 300 seconds runs out while its writer is
\* still at work
Expire ==
  /\ kv.lock
  /\ kv' = [kv EXCEPT !.lock = FALSE, !.owner = 0]
  /\ UNCHANGED <<deaths, runs, calls, now, hook, job, outbox, rate_limits>>

\* the holder's getMonthlyPaths or putMonthlyPaths rejects: the try block
\* is left for the finally block
HolderThrows(r) ==
  /\ runs[r].pc \in {"read", "put"}
  /\ runs' = [runs EXCEPT ![r].pc = "release"]
  /\ UNCHANGED <<deaths, calls, now, edgeVars>>

NextLock ==
  \/ \E r \in Scanners :
       \/ \E parsed \in RacePool : ScanMonth(r, parsed)
       \/ LockGet(r)
       \/ LockPut(r)
       \/ ReadLatest(r)
       \/ PutMonth(r)
       \/ ReleaseLock(r)
       \/ HolderThrows(r)
  \/ Expire

SpecLock == InitScan /\ [][NextLock]_vars

\* run r executes releaseMonthLock in this step
Releases(r) == runs[r].pc = "release" /\ runs'[r].pc = "done"

\* C38: releaseMonthLock is executed only by a run whose tryAcquireMonthLock
\* returned true, by every such run before it ends (also when its read or
\* write threw), and it deletes no marker that another run wrote
C38_ReleaseByOwnerOnly ==
  [][\A r \in Scanners :
       /\ Releases(r) => runs[r].gotLock
       /\ (runs[r].gotLock /\ runs[r].pc # "done" /\ runs'[r].pc = "done") => Releases(r)
       /\ (Releases(r) /\ kv.lock /\ kv.owner # r) => kv'.lock]_vars

\* ---------------------------------------------------------------- notify, then store
\* a loop body that stores the verdict before it notifies
StoreThenNotify == <<"store", "notify">>

\* the two awaited steps of the selected loop's body for one named item:
\* notifyTelegram and postToXIfConfigured, then updateDeathLLM
ItemSteps == <<"notify", "store">>

\* position of the webhook call inside the body of the current item
StageOf(h) == IF h.state = "item" THEN h.stage ELSE 1

\* the next awaited step of the current item returns
ItemStep(c) ==
  /\ calls[c].pc = "approve"
  /\ LET call == calls[c]
         wp == ItemPath(call.route, call.selected[call.idx], call.cands)
         item == call.selected[call.idx]
         what == ItemSteps[StageOf(hook)]
         next == NextNamed(call.selected, call.idx + 1)
         last == StageOf(hook) = Len(ItemSteps)
         moved == IF last
                  THEN [call EXCEPT !.idx = next,
                                    !.pc = IF next <= Len(call.selected) THEN "approve"
                                           ELSE "reject"]
                  ELSE call
     IN /\ deaths' = IF what = "store" /\ wp # <<>>
                     THEN updateDeathLLM(deaths, wp, item.cause, item.description, now)
                     ELSE deaths
        /\ calls' = [calls EXCEPT ![c] =
                       IF what = "notify"
                       THEN [moved EXCEPT !.notified = @ + 1,
                                          !.log = Append(@, LogEntry("notify", wp, deaths))]
                       ELSE IF wp # <<>>
                       THEN [moved EXCEPT !.log = Append(@, LogEntry("yes", wp, deaths))]
                       ELSE moved]
        /\ hook' = IF last THEN IdleHook ELSE [state |-> "item", stage |-> StageOf(hook) + 1]
  /\ UNCHANGED <<runs, now, job, outbox, rate_limits, kv>>

\* the next awaited step of the current item throws: the exception leaves
\* the reconciler
ItemThrows(c) ==
  /\ calls[c].pc = "approve"
  /\ calls' = [calls EXCEPT ![c].pc = "failed"]
  /\ UNCHANGED <<deaths, runs, now, edgeVars>>

NextOrder ==
  \/ \E batch \in BatchPool \cup {ScanBatch} : InsertBatch(1, batch)
  \/ /\ deaths # <<>>
     /\ \E v \in IsolationPool, cands \in {<<>>, StoredPaths(deaths)},
           route \in {"llm-output", "replicate-callback"} :
          StartReconcile("webhook", route, cands, <<>>, v)
  \/ ItemStep("webhook")
  \/ ItemThrows("webhook")
  \/ Reject("webhook")

SpecOrder == Init /\ [][NextOrder]_vars

\* the Notifier was invoked by call c for wiki_path p
NotifiedFor(c, p) == NotifyCount(c, p) >= 1

\* C39: a row the reconciler marks approved was notified earlier in the
\* same call, and a failure between the two steps changes no row: the
\* item's row stays pending and is never approved without a notification
C39_NotifyBeforeApprove ==
  [][ /\ \A i \in 1..Len(deaths) :
           (deaths'[i] # deaths[i] /\ deaths'[i].llm_result = "yes")
             => NotifiedFor("webhook", deaths[i].wiki_path)
      /\ (calls["webhook"].pc = "approve" /\ calls'["webhook"].pc = "failed") =>
           /\ deaths' = deaths
           /\ \A p \in calls["webhook"].pendingAt :
                ResultOf(deaths', p) = "yes" => NotifiedFor("webhook", p) ]_vars

\* the notification of an item went out, the store failed, and the item's
\* row is still pending
C39_Witness ==
  /\ calls["webhook"].pc = "failed"
  /\ hook.state = "item"
  /\ \E p \in calls["webhook"].pendingAt :
       /\ NotifiedFor("webhook", p)
       /\ ResultOf(deaths, p) = "pending"

\* ---------------------------------------------------------------- scoped to the batch
\* rows a step of call c wrote: the call advanced and the row differs
WrittenBy(c, i) == calls'[c] # calls[c] /\ deaths'[i] # deaths[i]

\* C40: a reconciliation call changes the verdict only of records whose
\* wiki_path is in the call's candidate list, and an id listed under
\* selected or rejected that resolves to no candidate updates no stored row.
C40_ScopedToBatch ==
  [][\A c \in Calls : \A i \in 1..Len(deaths) :
       /\ (WrittenBy(c, i) /\ deaths'[i].llm_result # deaths[i].llm_result)
            => deaths[i].wiki_path \in SeqRange(calls'[c].cands)
       /\ WrittenBy(c, i) => deaths[i].wiki_path \in SeqRange(calls'[c].cands)]_vars

====
